---- MODULE Spec2Model ----
(***************************************************************************)
(* The packing engine of the cutting-board application: calculateLayout    *)
(* (src/lib/utils/optimizer.ts) with findBestPlacementOnBoard,             *)
(* splitFreeRectangle, pruneFreeRectangles and calculateStatisticsAndScrap.*)
(*                                                                         *)
(* All lengths are whole millimetres.  The code compares against           *)
(* epsilon = 1e-5; on whole numbers  v > epsilon  is  v > 0,               *)
(* v <= epsilon  is  v <= 0,  a < b - epsilon  is  a < b  and              *)
(* a > b + epsilon  is  a > b, which is how the comparisons are written    *)
(* below.                                                                  *)
(***************************************************************************)
EXTENDS Integers, Sequences, FiniteSets, TLC

VARIABLES board, pieces, settings, pc, errors, warnings, pieceInstances,
          cursor, placedPiecesList, boardData, finalUnplacedPiecesSet,
          twin, twinInput, twinResult, result, call

vars == <<board, pieces, settings, pc, errors, warnings, pieceInstances,
          cursor, placedPiecesList, boardData, finalUnplacedPiecesSet,
          twin, twinInput, twinResult, result, call>>

(***************************************************************************)
(* Bounds of the inputs.                                                   *)
(***************************************************************************)
MaxQuantity == 2

MaxKerf == 1

\* stands for 2^32 - 1, the largest length Array(quantity) accepts
MaxArrayLength == 3

\* the longest side of a rectangle handed to a helper called on its own
MaxRectSide == 3

BoardWidths == {0, 2, 4}

BoardLengths == {0, 4}

KerfValues == -1 .. MaxKerf

EdgeTrimValues == {-1, 0, 1}

MinScrapWidths == {-1, 2}

MinScrapLengths == {-1, 1}

PieceWidths == {2, 3}

PieceLengths == {1, 2}

GrainDirections == {"length", "width", "none"}

OptimizationAlgos == {"waste", "cuts", "priority"}

\* the two ends of the range the store keeps a priority in
Priorities == {1, 5}

PieceIds == <<"p1", "p2">>

Min(a, b) == IF a <= b THEN a ELSE b

Max(a, b) == IF a >= b THEN a ELSE b

RECURSIVE SumSeq(_)
SumSeq(s) == IF s = <<>> THEN 0 ELSE Head(s) + SumSeq(Tail(s))

RECURSIVE FlattenSeq(_)
FlattenSeq(ss) == IF ss = <<>> THEN <<>> ELSE Head(ss) \o FlattenSeq(Tail(ss))

(***************************************************************************)
(* Input structures.                                                       *)
(***************************************************************************)
BoardDimensions == [widthMm : BoardWidths, lengthMm : BoardLengths]

CutSettings ==
    [kerfMm : KerfValues, edgeTrimMm : EdgeTrimValues,
     minScrapWidthMm : MinScrapWidths, minScrapLengthMm : MinScrapLengths,
     respectGrain : BOOLEAN, optimizationAlgo : {"waste"}]

CutPieceOf(id) ==
    [id : {id}, widthMm : PieceWidths, lengthMm : PieceLengths,
     quantity : 0 .. MaxQuantity, priority : {5},
     grainDirection : GrainDirections]

PieceLists ==
    {<<>>} \cup {<<p>> : p \in CutPieceOf(PieceIds[1])}
           \cup {<<p, q>> : p \in CutPieceOf(PieceIds[1]), q \in CutPieceOf(PieceIds[2])}

\* the piece lists tried with every board and every settings value, the
\* malformed ones included
ShortPieceLists ==
    {l \in PieceLists :
        \A i \in 1 .. Len(l) : l[i].quantity <= 1 /\ l[i].grainDirection = "none"}

\* one piece type asked for more often than an array can be long
OverlongPieceLists ==
    {<<[p EXCEPT !.quantity = MaxArrayLength + 1]>> : p \in CutPieceOf(PieceIds[1])}

PositiveBoards == {b \in BoardDimensions : b.widthMm > 0 /\ b.lengthMm > 0}

NonNegativeSettings ==
    {s \in CutSettings : s.kerfMm >= 0 /\ s.edgeTrimMm >= 0
                          /\ s.minScrapWidthMm >= 0 /\ s.minScrapLengthMm >= 0}

\* the scrap minimums of the inputs in millimetres: none, and the defaults of
\* the settings store
MillimetreScrapMinimums == {0, 50}

\* a sheet of 2440 x 1220 with trim 5 and kerf 3, three panels of 1200 x 600,
\* grain not respected
SheetInputs ==
    [board : {[widthMm |-> 2440, lengthMm |-> 1220]},
     settings : [kerfMm : {3}, edgeTrimMm : {5},
                 minScrapWidthMm : MillimetreScrapMinimums,
                 minScrapLengthMm : MillimetreScrapMinimums,
                 respectGrain : {FALSE}, optimizationAlgo : {"waste"}],
     pieces : {<<[id |-> PieceIds[1], widthMm |-> 1200, lengthMm |-> 600,
                  quantity |-> 3, priority |-> 5, grainDirection |-> g]>> :
                  g \in GrainDirections}]

\* the piece types cut from a board of 100 x 100
SquareBoardPieces ==
    [id : {PieceIds[1]}, widthMm : {40, 60}, lengthMm : {60},
     quantity : {1, 2}, priority : {5}, grainDirection : {"none"}]
    \X [id : {PieceIds[2]}, widthMm : {40, 60, 100}, lengthMm : {40, 60},
        quantity : {0, 1}, priority : {5}, grainDirection : {"none"}]

\* a board of 100 x 100 without trim and kerf
SquareBoardInputs ==
    [board : {[widthMm |-> 100, lengthMm |-> 100]},
     settings : [kerfMm : {0}, edgeTrimMm : {0},
                 minScrapWidthMm : MillimetreScrapMinimums,
                 minScrapLengthMm : MillimetreScrapMinimums,
                 respectGrain : BOOLEAN, optimizationAlgo : {"waste"}],
     pieces : {<<l[1], l[2]>> : l \in SquareBoardPieces}
              \cup {<<l[1]>> : l \in SquareBoardPieces}]

OptimizerInputs ==
    [board : BoardDimensions, settings : CutSettings, pieces : ShortPieceLists]
    \cup [board : PositiveBoards, settings : NonNegativeSettings, pieces : PieceLists]
    \cup SheetInputs
    \cup SquareBoardInputs

(***************************************************************************)
(* calculateLayout, step 1: validation.                                    *)
(***************************************************************************)
UsableWidthMm(b, s) == b.widthMm - 2 * s.edgeTrimMm

UsableLengthMm(b, s) == b.lengthMm - 2 * s.edgeTrimMm

ValidationErrorsNoScrapCheck(b, s) ==
    (IF b.widthMm <= 0 \/ b.lengthMm <= 0
        THEN <<"Board dimensions must be positive.">> ELSE <<>>)
    \o (IF s.kerfMm < 0 THEN <<"Kerf cannot be negative.">> ELSE <<>>)
    \o (IF s.edgeTrimMm < 0 THEN <<"Edge trim cannot be negative.">> ELSE <<>>)
    \o (IF (UsableWidthMm(b, s) <= 0 \/ UsableLengthMm(b, s) <= 0) /\ s.edgeTrimMm > 0
        THEN <<"Edge trim is too large for board dimensions.">> ELSE <<>>)

ValidationErrors(b, s) ==
    (IF b.widthMm <= 0 \/ b.lengthMm <= 0
        THEN <<"Board dimensions must be positive.">> ELSE <<>>)
    \o (IF s.kerfMm < 0 THEN <<"Kerf cannot be negative.">> ELSE <<>>)
    \o (IF s.edgeTrimMm < 0 THEN <<"Edge trim cannot be negative.">> ELSE <<>>)
    \o (IF s.minScrapWidthMm < 0 \/ s.minScrapLengthMm < 0
        THEN <<"Minimum scrap dimensions cannot be negative.">> ELSE <<>>)
    \o (IF (UsableWidthMm(b, s) <= 0 \/ UsableLengthMm(b, s) <= 0) /\ s.edgeTrimMm > 0
        THEN <<"Edge trim is too large for board dimensions.">> ELSE <<>>)

UnplaceableIgnoringTrim(b, ps, s) ==
    SelectSeq(ps, LAMBDA p :
        LET canFitNormally == p.widthMm <= b.widthMm /\ p.lengthMm <= b.lengthMm
            canRotate == IF s.respectGrain THEN p.grainDirection = "none" ELSE TRUE
            canFitRotated == canRotate /\ p.lengthMm <= b.widthMm /\ p.widthMm <= b.lengthMm
        IN ~(canFitNormally \/ canFitRotated))

UnplaceablePiecesDueToSize(b, ps, s) ==
    SelectSeq(ps, LAMBDA p :
        LET canFitNormally == p.widthMm <= UsableWidthMm(b, s)
                              /\ p.lengthMm <= UsableLengthMm(b, s)
            canRotate == IF s.respectGrain THEN p.grainDirection = "none" ELSE TRUE
            canFitRotated == canRotate /\ p.lengthMm <= UsableWidthMm(b, s)
                             /\ p.widthMm <= UsableLengthMm(b, s)
        IN ~(canFitNormally \/ canFitRotated))

SizeWarnings(b, ps, s) ==
    IF Len(UnplaceablePiecesDueToSize(b, ps, s)) > 0
    THEN <<"Found piece type(s) larger than the usable board area">>
    ELSE <<>>

TotalPiecesArea(ps) ==
    SumSeq([i \in 1 .. Len(ps) |->
              ps[i].widthMm * ps[i].lengthMm * Max(0, ps[i].quantity)])

(***************************************************************************)
(* calculateLayout, step 2: expansion into unit instances and the sort by  *)
(* descending length, then descending width.  Array.prototype.sort is      *)
(* stable, so the comparator leaves one order; SortedOrders is the set of  *)
(* orders the sort may return.                                             *)
(***************************************************************************)
ExpandInstances(ps) ==
    FlattenSeq([i \in 1 .. Len(ps) |->
        LET quantity == Max(0, ps[i].quantity)
        IN [k \in 1 .. quantity |-> [ps[i] EXCEPT !.quantity = 1]]])

\* Array(quantity) with a quantity beyond the largest array length is a
\* RangeError
InvalidArrayLength(ps) ==
    \E i \in 1 .. Len(ps) : Max(0, ps[i].quantity) > MaxArrayLength

\* a comparator that puts the lower priority number first
CompareByPriority(a, b) ==
    IF a.priority # b.priority THEN a.priority - b.priority
    ELSE IF b.lengthMm # a.lengthMm THEN b.lengthMm - a.lengthMm
    ELSE b.widthMm - a.widthMm

\* a comparator on the width first and the length second
CompareWidthFirst(a, b) ==
    IF b.widthMm # a.widthMm THEN b.widthMm - a.widthMm
    ELSE b.lengthMm - a.lengthMm

\* the comparator of the sort: negative when a is to come before b
CompareInstances(a, b) ==
    IF b.lengthMm # a.lengthMm THEN b.lengthMm - a.lengthMm
    ELSE b.widthMm - a.widthMm

RECURSIVE InsertStable(_, _)
InsertStable(sorted, x) ==
    IF sorted = <<>> THEN <<x>>
    ELSE IF CompareInstances(x, Head(sorted)) < 0
         THEN <<x>> \o sorted
         ELSE <<Head(sorted)>> \o InsertStable(Tail(sorted), x)

RECURSIVE StableSort(_)
StableSort(s) ==
    IF s = <<>> THEN <<>>
    ELSE InsertStable(StableSort(SubSeq(s, 1, Len(s) - 1)), s[Len(s)])

SeqPermutations(s) ==
    {[i \in 1 .. Len(s) |-> s[f[i]]] :
        f \in {g \in [1 .. Len(s) -> 1 .. Len(s)] :
                 \A i, j \in 1 .. Len(s) : i # j => g[i] # g[j]}}

UnstableSortedOrders(s) ==
    {t \in SeqPermutations(s) :
        \A i \in 1 .. Len(t) - 1 : CompareInstances(t[i], t[i + 1]) <= 0}

SortedOrders(s) == {StableSort(s)}

(***************************************************************************)
(* findBestPlacementOnBoard (Best Short Side Fit).  The result is <<>> for *)
(* null and <<candidate>> otherwise; nodeIndex counts from 1.              *)
(***************************************************************************)
\* no piece may be turned
CanRotateNever(piece, s) == FALSE

CanRotateAlways(piece, s) == TRUE

CanRotate(piece, s) ==
    IF s.respectGrain THEN piece.grainDirection = "none" ELSE TRUE

\* score < bestScore, with bestScore = Infinity while nothing is found
\* a score as low as the best so far replaces it
BetterOrEqualScore(score, best) == best = <<>> \/ score <= best[1].score

BetterScore(score, best) == best = <<>> \/ score < best[1].score

\* a piece as wide or as long as the rectangle is turned away
TryNormalStrict(piece, rect, i, best) ==
    IF piece.widthMm < rect.width /\ piece.lengthMm < rect.length
    THEN LET score == Min(rect.width - piece.widthMm, rect.length - piece.lengthMm)
         IN IF BetterScore(score, best)
            THEN <<[nodeIndex |-> i,
                    placementRect |-> [x |-> rect.x, y |-> rect.y,
                                       width |-> piece.widthMm,
                                       length |-> piece.lengthMm],
                    isRotated |-> FALSE, score |-> score]>>
            ELSE best
    ELSE best

TryNormal(piece, rect, i, best) ==
    IF piece.widthMm <= rect.width /\ piece.lengthMm <= rect.length
    THEN LET score == Min(rect.width - piece.widthMm, rect.length - piece.lengthMm)
         IN IF BetterScore(score, best)
            THEN <<[nodeIndex |-> i,
                    placementRect |-> [x |-> rect.x, y |-> rect.y,
                                       width |-> piece.widthMm,
                                       length |-> piece.lengthMm],
                    isRotated |-> FALSE, score |-> score]>>
            ELSE best
    ELSE best

TryRotated(piece, rect, i, s, best) ==
    IF CanRotate(piece, s) /\ piece.lengthMm <= rect.width /\ piece.widthMm <= rect.length
    THEN LET score == Min(rect.width - piece.lengthMm, rect.length - piece.widthMm)
         IN IF BetterScore(score, best)
            THEN <<[nodeIndex |-> i,
                    placementRect |-> [x |-> rect.x, y |-> rect.y,
                                       width |-> piece.lengthMm,
                                       length |-> piece.widthMm],
                    isRotated |-> TRUE, score |-> score]>>
            ELSE best
    ELSE best

RECURSIVE BestFrom(_, _, _, _, _)
BestFrom(piece, freeRectangles, s, i, best) ==
    IF i > Len(freeRectangles) THEN best
    ELSE BestFrom(piece, freeRectangles, s, i + 1,
                  TryRotated(piece, freeRectangles[i], i, s,
                             TryNormal(piece, freeRectangles[i], i, best)))

\* under "cuts" only the first free rectangle is tried
FindBestByAlgo(piece, freeRectangles, s) ==
    IF s.optimizationAlgo = "cuts"
    THEN BestFrom(piece, SubSeq(freeRectangles, 1, Min(1, Len(freeRectangles))),
                  s, 1, <<>>)
    ELSE BestFrom(piece, freeRectangles, s, 1, <<>>)

FindBestPlacementOnBoard(piece, freeRectangles, s) ==
    BestFrom(piece, freeRectangles, s, 1, <<>>)

(***************************************************************************)
(* splitFreeRectangle (Split Longer Leftover Axis).                        *)
(***************************************************************************)
\* the right and bottom edges are not looked at
PlacedOutsideLeftTop(freeRect, placedRect) ==
    \/ placedRect.width <= 0
    \/ placedRect.length <= 0
    \/ placedRect.x < freeRect.x
    \/ placedRect.y < freeRect.y

PlacedOutsideFree(freeRect, placedRect) ==
    \/ placedRect.width <= 0
    \/ placedRect.length <= 0
    \/ placedRect.x < freeRect.x
    \/ placedRect.y < freeRect.y
    \/ placedRect.x + placedRect.width > freeRect.x + freeRect.width
    \/ placedRect.y + placedRect.length > freeRect.y + freeRect.length

\* the kerf is taken off the second rectangle as well
SplitKerfOnBoth(freeRect, placedRect, s) ==
    LET k == s.kerfMm
        leftoverW == freeRect.width - placedRect.width
        leftoverL == freeRect.length - placedRect.length
    IN IF PlacedOutsideFree(freeRect, placedRect) THEN <<>>
       ELSE IF leftoverW <= leftoverL
       THEN (IF leftoverW - k > 0
             THEN <<[x |-> freeRect.x + placedRect.width + k, y |-> freeRect.y,
                     width |-> leftoverW - k, length |-> freeRect.length]>>
             ELSE <<>>)
            \o (IF leftoverL - k > 0
                THEN <<[x |-> freeRect.x, y |-> freeRect.y + placedRect.length + k,
                        width |-> placedRect.width, length |-> leftoverL - k]>>
                ELSE <<>>)
       ELSE (IF leftoverL - k > 0
             THEN <<[x |-> freeRect.x, y |-> freeRect.y + placedRect.length + k,
                     width |-> freeRect.width, length |-> leftoverL - k]>>
             ELSE <<>>)
            \o (IF leftoverW - k > 0
                THEN <<[x |-> freeRect.x + placedRect.width + k, y |-> freeRect.y,
                        width |-> leftoverW - k, length |-> placedRect.length]>>
                ELSE <<>>)

\* the free rectangle is handed back whole
SplitLeavesFreeRect(freeRect, placedRect, s) == <<freeRect>>

\* of the two rectangles only the one next to the kerf is kept
SplitPrimaryOnly(freeRect, placedRect, s) ==
    LET k == s.kerfMm
        leftoverW == freeRect.width - placedRect.width
        leftoverL == freeRect.length - placedRect.length
    IN IF PlacedOutsideFree(freeRect, placedRect) THEN <<>>
       ELSE IF leftoverW <= leftoverL
       THEN (IF leftoverW - k > 0
             THEN <<[x |-> freeRect.x + placedRect.width + k, y |-> freeRect.y,
                     width |-> leftoverW - k, length |-> freeRect.length]>>
             ELSE <<>>)
       ELSE (IF leftoverL - k > 0
             THEN <<[x |-> freeRect.x, y |-> freeRect.y + placedRect.length + k,
                     width |-> freeRect.width, length |-> leftoverL - k]>>
             ELSE <<>>)

SplitFullWidthBelow(freeRect, placedRect, s) ==
    LET k == s.kerfMm
        leftoverW == freeRect.width - placedRect.width
        leftoverL == freeRect.length - placedRect.length
    IN IF PlacedOutsideFree(freeRect, placedRect) THEN <<>>
       ELSE (IF leftoverW - k > 0
             THEN <<[x |-> freeRect.x + placedRect.width + k, y |-> freeRect.y,
                     width |-> leftoverW - k, length |-> freeRect.length]>>
             ELSE <<>>)
            \o (IF leftoverL > 0
                THEN <<[x |-> freeRect.x, y |-> freeRect.y + placedRect.length,
                        width |-> freeRect.width, length |-> leftoverL]>>
                ELSE <<>>)

SplitFreeRectangle(freeRect, placedRect, s) ==
    LET k == s.kerfMm
        leftoverW == freeRect.width - placedRect.width
        leftoverL == freeRect.length - placedRect.length
    IN IF PlacedOutsideFree(freeRect, placedRect) THEN <<>>
       ELSE IF leftoverW <= leftoverL
       THEN (IF leftoverW - k > 0
             THEN <<[x |-> freeRect.x + placedRect.width + k, y |-> freeRect.y,
                     width |-> leftoverW - k, length |-> freeRect.length]>>
             ELSE <<>>)
            \o (IF leftoverL > 0
                THEN <<[x |-> freeRect.x, y |-> freeRect.y + placedRect.length,
                        width |-> placedRect.width, length |-> leftoverL]>>
                ELSE <<>>)
       ELSE (IF leftoverL - k > 0
             THEN <<[x |-> freeRect.x, y |-> freeRect.y + placedRect.length + k,
                     width |-> freeRect.width, length |-> leftoverL - k]>>
             ELSE <<>>)
            \o (IF leftoverW > 0
                THEN <<[x |-> freeRect.x + placedRect.width, y |-> freeRect.y,
                        width |-> leftoverW, length |-> placedRect.length]>>
                ELSE <<>>)

(***************************************************************************)
(* pruneFreeRectangles: drops every rectangle contained in another one.    *)
(***************************************************************************)
RectInRect(a, b) ==
    /\ a.x >= b.x
    /\ a.y >= b.y
    /\ a.x + a.width <= b.x + b.width
    /\ a.y + a.length <= b.y + b.length

\* of two identical rectangles the earlier one is deleted
RECURSIVE PruneInnerKeepsLater(_, _, _, _)
PruneInnerKeepsLater(rectangles, kept, i, j) ==
    IF j > Len(rectangles) THEN kept
    ELSE IF j \notin kept THEN PruneInnerKeepsLater(rectangles, kept, i, j + 1)
    ELSE LET i_in_j == RectInRect(rectangles[i], rectangles[j])
             j_in_i == RectInRect(rectangles[j], rectangles[i])
         IN IF i_in_j THEN kept \ {i}
            ELSE IF j_in_i THEN PruneInnerKeepsLater(rectangles, kept \ {j}, i, j + 1)
            ELSE PruneInnerKeepsLater(rectangles, kept, i, j + 1)

\* the inner loop over j for one i; kept is the set keptIndices
RECURSIVE PruneInner(_, _, _, _)
PruneInner(rectangles, kept, i, j) ==
    IF j > Len(rectangles) THEN kept
    ELSE IF j \notin kept THEN PruneInner(rectangles, kept, i, j + 1)
    ELSE LET i_in_j == RectInRect(rectangles[i], rectangles[j])
             j_in_i == RectInRect(rectangles[j], rectangles[i])
         IN IF i_in_j /\ j_in_i THEN PruneInner(rectangles, kept \ {j}, i, j + 1)
            ELSE IF i_in_j THEN kept \ {i}
            ELSE IF j_in_i THEN PruneInner(rectangles, kept \ {j}, i, j + 1)
            ELSE PruneInner(rectangles, kept, i, j + 1)

RECURSIVE PruneOuter(_, _, _)
PruneOuter(rectangles, kept, i) ==
    IF i > Len(rectangles) THEN kept
    ELSE IF i \notin kept THEN PruneOuter(rectangles, kept, i + 1)
    ELSE PruneOuter(rectangles, PruneInner(rectangles, kept, i, i + 1), i + 1)

RECURSIVE KeptInOrder(_, _, _)
KeptInOrder(rectangles, kept, i) ==
    IF i > Len(rectangles) THEN <<>>
    ELSE (IF i \in kept THEN <<rectangles[i]>> ELSE <<>>)
         \o KeptInOrder(rectangles, kept, i + 1)

PruneFreeRectangles(rectangles) ==
    IF Len(rectangles) < 2 THEN rectangles
    ELSE KeptInOrder(rectangles, PruneOuter(rectangles, 1 .. Len(rectangles), 1), 1)

(***************************************************************************)
(* calculateStatisticsAndScrap: the usable scrap among the final free      *)
(* rectangles, sorted by descending area (a stable sort).                  *)
(***************************************************************************)
\* the minimums compared with the rectangle as it lies only
MeetsMinSizeUnturned(rect, s) ==
    rect.width >= s.minScrapWidthMm /\ rect.length >= s.minScrapLengthMm

MeetsMinSize(rect, s) ==
    \/ rect.width >= s.minScrapWidthMm /\ rect.length >= s.minScrapLengthMm
    \/ rect.width >= s.minScrapLengthMm /\ rect.length >= s.minScrapWidthMm

ScrapOfBoard(b, s) ==
    LET usable == SelectSeq(b.freeRectangles, LAMBDA rect :
                     ~(rect.width <= 0 \/ rect.length <= 0) /\ MeetsMinSize(rect, s))
    IN [i \in 1 .. Len(usable) |->
          [x |-> usable[i].x, y |-> usable[i].y, width |-> usable[i].width,
           length |-> usable[i].length, boardIndex |-> b.index,
           areaMm2 |-> usable[i].width * usable[i].length]]

RECURSIVE InsertByArea(_, _)
InsertByArea(sorted, x) ==
    IF sorted = <<>> THEN <<x>>
    ELSE IF Head(sorted).areaMm2 - x.areaMm2 < 0
         THEN <<x>> \o sorted
         ELSE <<Head(sorted)>> \o InsertByArea(Tail(sorted), x)

\* the scrap in the order the boards were walked
ScrapAsCollected(s) == s

RECURSIVE SortByArea(_)
SortByArea(s) ==
    IF s = <<>> THEN <<>>
    ELSE InsertByArea(SortByArea(SubSeq(s, 1, Len(s) - 1)), s[Len(s)])

CalculateStatisticsAndScrap(finalBoardData, s) ==
    SortByArea(FlattenSeq([i \in 1 .. Len(finalBoardData) |->
                             ScrapOfBoard(finalBoardData[i], s)]))

(***************************************************************************)
(* calculateLayout, step 3: the initial state of the placement loop.       *)
(***************************************************************************)
UntrimmedUsableRect(b, s) ==
    IF UsableWidthMm(b, s) > 0 /\ UsableLengthMm(b, s) > 0
    THEN <<[x |-> 0, y |-> 0, width |-> b.widthMm, length |-> b.lengthMm]>>
    ELSE <<>>

\* <<>> for null
InitialUsableRect(b, s) ==
    IF UsableWidthMm(b, s) > 0 /\ UsableLengthMm(b, s) > 0
    THEN <<[x |-> s.edgeTrimMm, y |-> s.edgeTrimMm,
            width |-> UsableWidthMm(b, s), length |-> UsableLengthMm(b, s)]>>
    ELSE <<>>

InitialBoardData(b, s) ==
    IF InitialUsableRect(b, s) # <<>>
    THEN <<[index |-> 0, freeRectangles |-> InitialUsableRect(b, s)]>>
    ELSE <<>>

InitialLoopState(b, s, instances, w) ==
    [pieceInstances |-> instances,
     placedPiecesList |-> <<>>,
     boardData |-> InitialBoardData(b, s),
     finalUnplacedPiecesSet |-> {},
     warnings |-> w \o (IF InitialUsableRect(b, s) # <<>> THEN <<>>
                        ELSE <<"No usable area on board after edge trim.">>)]

(***************************************************************************)
(* calculateLayout, step 4: one iteration of the placement loop.           *)
(***************************************************************************)
\* the used rectangle stays in the list
RemoveNothing(s, i) == s

RemoveAt(s, i) == SubSeq(s, 1, i - 1) \o SubSeq(s, i + 1, Len(s))

\* no existing board is looked at
NoAdmittingBoards(piece, bd, s) == {}

\* the boards (positions in boardData) whose free rectangles admit the piece
AdmittingBoards(piece, bd, s) ==
    {i \in 1 .. Len(bd) : FindBestPlacementOnBoard(piece, bd[i].freeRectangles, s) # <<>>}

\* the admitting board opened last
LastAdmittingBoard(piece, bd, s) ==
    CHOOSE i \in AdmittingBoards(piece, bd, s) :
        \A j \in AdmittingBoards(piece, bd, s) : i >= j

FirstAdmittingBoard(piece, bd, s) ==
    CHOOSE i \in AdmittingBoards(piece, bd, s) :
        \A j \in AdmittingBoards(piece, bd, s) : i <= j

\* bestPlacementForPiece with the free rectangles of its board: <<>> for null
BestPlacementForPiece(st, piece, b, s) ==
    IF AdmittingBoards(piece, st.boardData, s) # {}
    THEN LET i == FirstAdmittingBoard(piece, st.boardData, s)
         IN <<[boardIndex |-> i - 1,
               freeRectangles |-> st.boardData[i].freeRectangles,
               cand |-> FindBestPlacementOnBoard(
                            piece, st.boardData[i].freeRectangles, s)[1]]>>
    ELSE IF InitialUsableRect(b, s) # <<>>
            /\ FindBestPlacementOnBoard(piece, InitialUsableRect(b, s), s) # <<>>
    THEN <<[boardIndex |-> Len(st.boardData),
            freeRectangles |-> InitialUsableRect(b, s),
            cand |-> FindBestPlacementOnBoard(piece, InitialUsableRect(b, s), s)[1]]>>
    ELSE <<>>

\* freeRectangles[nodeIndex] is undefined: splice returns nothing and
\* splitFreeRectangle reads a field of undefined, a TypeError
UsedNodeMissing(st, piece, b, s) ==
    LET best == BestPlacementForPiece(st, piece, b, s)
    IN /\ best # <<>>
       /\ best[1].cand.nodeIndex \notin 1 .. Len(best[1].freeRectangles)

\* every board's list is the one array the placement updates
ProcessPlacementSharedList(st, piece, boardIndex, cand, s) ==
    LET targetBoard == st.boardData[boardIndex + 1]
        removedRect == targetBoard.freeRectangles[cand.nodeIndex]
        newFreeRects == SplitFreeRectangle(removedRect, cand.placementRect, s)
        updated == PruneFreeRectangles(
                       RemoveAt(targetBoard.freeRectangles, cand.nodeIndex)
                       \o newFreeRects)
    IN [st EXCEPT
          !.placedPiecesList =
              Append(@, [id |-> piece.id, boardIndex |-> boardIndex,
                         isRotated |-> cand.isRotated,
                         placedWidthMm |-> cand.placementRect.width,
                         placedLengthMm |-> cand.placementRect.length,
                         x |-> cand.placementRect.x, y |-> cand.placementRect.y]),
          !.boardData = [k \in 1 .. Len(@) |-> [@[k] EXCEPT !.freeRectangles = updated]]]

\* records the placed piece, then splice, splitFreeRectangle, push, prune
ProcessPlacement(st, piece, boardIndex, cand, s) ==
    LET targetBoard == st.boardData[boardIndex + 1]
        removedRect == targetBoard.freeRectangles[cand.nodeIndex]
        newFreeRects == SplitFreeRectangle(removedRect, cand.placementRect, s)
        updated == PruneFreeRectangles(
                       RemoveAt(targetBoard.freeRectangles, cand.nodeIndex)
                       \o newFreeRects)
    IN [st EXCEPT
          !.placedPiecesList =
              Append(@, [id |-> piece.id, boardIndex |-> boardIndex,
                         isRotated |-> cand.isRotated,
                         placedWidthMm |-> cand.placementRect.width,
                         placedLengthMm |-> cand.placementRect.length,
                         x |-> cand.placementRect.x, y |-> cand.placementRect.y]),
          !.boardData[boardIndex + 1].freeRectangles = updated]

MarkUnplaced(st, piece) ==
    [st EXCEPT !.finalUnplacedPiecesSet = @ \cup {piece.id}]

\* the new board is pushed before the piece is tried on it
PlaceStepOpensFirst(st, piece, b, s) ==
    IF AdmittingBoards(piece, st.boardData, s) # {}
    THEN LET i == FirstAdmittingBoard(piece, st.boardData, s)
             placementAttempt ==
                 FindBestPlacementOnBoard(piece, st.boardData[i].freeRectangles, s)
         IN ProcessPlacement(st, piece, i - 1, placementAttempt[1], s)
    ELSE IF InitialUsableRect(b, s) # <<>>
    THEN LET newBoardIndex == Len(st.boardData)
             newBoard == [index |-> newBoardIndex,
                          freeRectangles |-> InitialUsableRect(b, s)]
             opened == [st EXCEPT !.boardData = Append(@, newBoard)]
             placementAttempt ==
                 FindBestPlacementOnBoard(piece, newBoard.freeRectangles, s)
         IN IF placementAttempt # <<>>
            THEN ProcessPlacement(opened, piece, newBoardIndex, placementAttempt[1], s)
            ELSE MarkUnplaced(opened, piece)
    ELSE MarkUnplaced(st, piece)

PlaceStep(st, piece, b, s) ==
    IF AdmittingBoards(piece, st.boardData, s) # {}
    THEN LET i == FirstAdmittingBoard(piece, st.boardData, s)
             placementAttempt ==
                 FindBestPlacementOnBoard(piece, st.boardData[i].freeRectangles, s)
         IN ProcessPlacement(st, piece, i - 1, placementAttempt[1], s)
    ELSE IF InitialUsableRect(b, s) # <<>>
            /\ FindBestPlacementOnBoard(piece, InitialUsableRect(b, s), s) # <<>>
    THEN LET newBoardIndex == Len(st.boardData)
             newBoard == [index |-> newBoardIndex,
                          freeRectangles |-> InitialUsableRect(b, s)]
             opened == [st EXCEPT !.boardData = Append(@, newBoard)]
             placementAttempt ==
                 FindBestPlacementOnBoard(piece, newBoard.freeRectangles, s)
         IN IF placementAttempt # <<>>
            THEN ProcessPlacement(opened, piece, newBoardIndex, placementAttempt[1], s)
            ELSE MarkUnplaced(
                     [opened EXCEPT !.warnings =
                         Append(@, "Placement logic error on new board.")],
                     piece)
    ELSE MarkUnplaced(st, piece)

(***************************************************************************)
(* calculateLayout, step 5: statistics and the result.  wastePercentage is *)
(* the exact fraction num / den.                                           *)
(***************************************************************************)
BoardsUsedIgnoringPlaced(bd, placed) == Len(bd)

BoardsUsedAtMostOne(bd, placed) == IF Len(bd) > 0 /\ Len(placed) > 0 THEN 1 ELSE 0

FinalBoardsUsedCount(bd, placed) ==
    IF Len(bd) > 0 /\ Len(placed) > 0 THEN Len(bd) ELSE 0

PlacedPieceArea(placed) ==
    SumSeq([i \in 1 .. Len(placed) |-> placed[i].placedWidthMm * placed[i].placedLengthMm])

WasteAlwaysFull(placedArea, totalBoardArea, totalPiecesArea) ==
    IF totalBoardArea > 0
    THEN [num |-> Max(0, 100 * (totalBoardArea - placedArea)), den |-> totalBoardArea]
    ELSE [num |-> 100, den |-> 1]

\* Math.max(0, 100 * (1 - placedArea / totalBoardArea)), or 100 or 0
WastePercentage(placedArea, totalBoardArea, totalPiecesArea) ==
    IF totalBoardArea > 0
    THEN [num |-> Max(0, 100 * (totalBoardArea - placedArea)), den |-> totalBoardArea]
    ELSE [num |-> IF totalPiecesArea > 0 THEN 100 ELSE 0, den |-> 1]

\* every input type is listed
EveryTypeUnplaced(ps, unplacedIds) == ps

FinalUnplacedList(ps, unplacedIds) == SelectSeq(ps, LAMBDA p : p.id \in unplacedIds)

ErrorResult(b, ps, s, errs, warns) ==
    [placedPieces |-> <<>>, unplacedPieces |-> ps, boardsUsed |-> 0,
     boardDimensions |-> b, settingsUsed |-> s,
     totalPiecesAreaMm2 |-> TotalPiecesArea(ps), totalPlacedPieceAreaMm2 |-> 0,
     totalBoardsAreaMm2 |-> 0, wastePercentage |-> [num |-> 100, den |-> 1],
     usableScrap |-> <<>>, errors |-> errs, warnings |-> warns]

FinalResult(b, ps, s, st, errs) ==
    LET finalPlacedPieceArea == PlacedPieceArea(st.placedPiecesList)
        finalBoardsUsedCount == FinalBoardsUsedCount(st.boardData, st.placedPiecesList)
        finalTotalBoardArea == finalBoardsUsedCount * b.widthMm * b.lengthMm
    IN [placedPieces |-> st.placedPiecesList,
        unplacedPieces |-> FinalUnplacedList(ps, st.finalUnplacedPiecesSet),
        boardsUsed |-> finalBoardsUsedCount,
        boardDimensions |-> b, settingsUsed |-> s,
        totalPiecesAreaMm2 |-> TotalPiecesArea(ps),
        totalPlacedPieceAreaMm2 |-> finalPlacedPieceArea,
        totalBoardsAreaMm2 |-> finalTotalBoardArea,
        wastePercentage |->
            WastePercentage(finalPlacedPieceArea, finalTotalBoardArea, TotalPiecesArea(ps)),
        usableScrap |-> CalculateStatisticsAndScrap(st.boardData, s),
        errors |-> errs, warnings |-> st.warnings]

(***************************************************************************)
(* The run of calculateLayout as a state machine.  twin is the loop state  *)
(* of a second call, on the board with the pieces and settings of          *)
(* twinInput, advanced in step with the first; twinResult is what the      *)
(* second call returns.                                                    *)
(***************************************************************************)
NoResult == [boardsUsed |-> -1]

\* no helper is called on its own
NoCall == [fn |-> "none"]

NoLoopState ==
    [pieceInstances |-> <<>>, placedPiecesList |-> <<>>, boardData |-> <<>>,
     finalUnplacedPiecesSet |-> {}, warnings |-> <<>>]

LoopState ==
    [pieceInstances |-> pieceInstances, placedPiecesList |-> placedPiecesList,
     boardData |-> boardData, finalUnplacedPiecesSet |-> finalUnplacedPiecesSet,
     warnings |-> warnings]

\* the locals of calculateLayout before its first statement
InitialControl ==
    /\ pc = "validate"
    /\ errors = <<>>
    /\ warnings = <<>>
    /\ pieceInstances = <<>>
    /\ cursor = 0
    /\ placedPiecesList = <<>>
    /\ boardData = <<>>
    /\ finalUnplacedPiecesSet = {}
    /\ twin = NoLoopState
    /\ result = NoResult
    /\ twinResult = NoResult
    /\ call = NoCall

\* the second call is given the input of the first
SameInput == twinInput = [pieces |-> pieces, settings |-> settings]

Init ==
    /\ \E in \in OptimizerInputs :
          /\ board = in.board
          /\ pieces = in.pieces
          /\ settings = in.settings
    /\ SameInput
    /\ InitialControl

\* lines 109-127 with errors: the error result is returned
RejectInput ==
    /\ pc = "validate"
    /\ ValidationErrors(board, settings) # <<>>
    /\ errors' = ValidationErrors(board, settings)
    /\ warnings' = SizeWarnings(board, pieces, settings)
    /\ result' = ErrorResult(board, pieces, settings, errors', warnings')
    /\ twinResult' =
          ErrorResult(board, twinInput.pieces, twinInput.settings,
                      ValidationErrors(board, twinInput.settings),
                      SizeWarnings(board, twinInput.pieces, twinInput.settings))
    /\ pc' = "done"
    /\ UNCHANGED <<board, pieces, settings, pieceInstances, cursor, placedPiecesList,
                   boardData, finalUnplacedPiecesSet, twin, twinInput, call>>

\* lines 109-149 without errors: instances expanded and sorted, state initialised
PrepareLayout ==
    /\ pc = "validate"
    /\ ValidationErrors(board, settings) = <<>>
    /\ errors' = <<>>
    /\ IF InvalidArrayLength(pieces)
       THEN /\ pc' = "threw"
            /\ warnings' = SizeWarnings(board, pieces, settings)
            /\ UNCHANGED <<pieceInstances, placedPiecesList, boardData,
                           finalUnplacedPiecesSet, twin, cursor>>
       ELSE /\ \E order \in SortedOrders(ExpandInstances(pieces)),
                  twinOrder \in SortedOrders(ExpandInstances(twinInput.pieces)) :
                  LET w == SizeWarnings(board, pieces, settings)
                      st == InitialLoopState(board, settings, order, w)
                  IN /\ pieceInstances' = st.pieceInstances
                     /\ placedPiecesList' = st.placedPiecesList
                     /\ boardData' = st.boardData
                     /\ finalUnplacedPiecesSet' = st.finalUnplacedPiecesSet
                     /\ warnings' = st.warnings
                     /\ twin' = InitialLoopState(
                                    board, twinInput.settings, twinOrder,
                                    SizeWarnings(board, twinInput.pieces,
                                                 twinInput.settings))
            /\ cursor' = 1
            /\ pc' = "place"
    /\ UNCHANGED <<board, pieces, settings, result, twinInput, twinResult, call>>

\* lines 153-226: one iteration of the loop over pieceInstances; an exception
\* leaves calculateLayout without a result
PlacePiece ==
    /\ pc = "place"
    /\ cursor <= Len(pieceInstances)
    /\ IF UsedNodeMissing(LoopState, pieceInstances[cursor], board, settings)
       THEN /\ pc' = "threw"
            /\ UNCHANGED <<placedPiecesList, boardData, finalUnplacedPiecesSet,
                           warnings, twin, cursor>>
       ELSE /\ LET st == PlaceStep(LoopState, pieceInstances[cursor], board, settings)
               IN /\ placedPiecesList' = st.placedPiecesList
                  /\ boardData' = st.boardData
                  /\ finalUnplacedPiecesSet' = st.finalUnplacedPiecesSet
                  /\ warnings' = st.warnings
            /\ twin' = PlaceStep(twin, twin.pieceInstances[cursor], board,
                                 twinInput.settings)
            /\ cursor' = cursor + 1
            /\ pc' = pc
    /\ UNCHANGED <<board, pieces, settings, errors, pieceInstances, result,
                   twinInput, twinResult, call>>

\* lines 231-275: statistics, scrap and the returned result
ReturnResult ==
    /\ pc = "place"
    /\ cursor > Len(pieceInstances)
    /\ result' = FinalResult(board, pieces, settings, LoopState, errors)
    /\ twinResult' =
          FinalResult(board, twinInput.pieces, twinInput.settings, twin, <<>>)
    /\ pc' = "done"
    /\ UNCHANGED <<board, pieces, settings, errors, warnings, pieceInstances, cursor,
                   placedPiecesList, boardData, finalUnplacedPiecesSet, twin,
                   twinInput, call>>

Next == RejectInput \/ PrepareLayout \/ PlacePiece \/ ReturnResult

Spec == Init /\ [][Next]_vars

\* the inputs of the runs followed to their end: every board and every
\* settings value, the malformed ones included
TerminationInputs ==
    [board : BoardDimensions, settings : CutSettings, pieces : ShortPieceLists]
    \cup [board : PositiveBoards, settings : NonNegativeSettings,
          pieces : OverlongPieceLists]

InitTermination ==
    /\ \E in \in TerminationInputs :
          /\ board = in.board
          /\ pieces = in.pieces
          /\ settings = in.settings
    /\ SameInput
    /\ InitialControl

\* the inputs of the first of two calls that differ in what the layout is
\* not to depend on
InertInputs ==
    [board : PositiveBoards,
     settings : {s \in CutSettings : /\ s.edgeTrimMm >= 0
                                     /\ s.minScrapWidthMm >= 0
                                     /\ s.minScrapLengthMm >= 0},
     pieces : {l \in ShortPieceLists : \A i \in 1 .. Len(l) : l[i].quantity = 1}]

\* the piece list with every choice of priorities
PriorityVariants(ps) ==
    {[i \in 1 .. Len(ps) |-> [ps[i] EXCEPT !.priority = f[i]]] :
        f \in [1 .. Len(ps) -> Priorities]}

\* the inputs that differ from in at most in optimizationAlgo and in the
\* priorities of the pieces
InertVariants(in) ==
    [pieces : PriorityVariants(in.pieces),
     settings : {[in.settings EXCEPT !.optimizationAlgo = a] :
                    a \in OptimizationAlgos}]

InitInert ==
    /\ \E in \in InertInputs :
          /\ board = in.board
          /\ pieces = in.pieces
          /\ settings = in.settings
          /\ twinInput \in InertVariants(in)
    /\ InitialControl

\* two calls of calculateLayout side by side, the second on a variant of the
\* input of the first
SpecInert == InitInert /\ [][Next]_vars

\* the loop moving on from the instance at the cursor: the PlacePiece steps,
\* told by what they do to cursor and pc
NextIteration ==
    /\ pc = "place"
    /\ cursor <= Len(pieceInstances)
    /\ \/ cursor' = cursor + 1 /\ pc' = pc
       \/ cursor' = cursor /\ pc' = "threw"

\* calculateLayout is one synchronous call: a step that can be taken is taken
FairSpec ==
    /\ InitTermination
    /\ [][Next]_vars
    /\ WF_vars(RejectInput)
    /\ WF_vars(PrepareLayout)
    /\ WF_<<cursor, pc>>(NextIteration)
    /\ WF_vars(ReturnResult)

(***************************************************************************)
(* The helpers called on their own: call holds the arguments of one call   *)
(* of findBestPlacementOnBoard, splitFreeRectangle or pruneFreeRectangles  *)
(* and, once it has returned, what it returned.  calculateLayout does not  *)
(* run meanwhile.                                                          *)
(***************************************************************************)
\* the free rectangles handed to the helpers
FreeRectangles ==
    [x : 0 .. 1, y : 0 .. 1, width : 1 .. MaxRectSide, length : 1 .. MaxRectSide]

\* the lists of at most two free rectangles
FreeRectangleLists ==
    {<<>>} \cup {<<r>> : r \in FreeRectangles}
           \cup {<<r, q>> : r \in FreeRectangles, q \in FreeRectangles}

\* the small rectangles of which lists of up to three are pruned
PrunedRectangles == [x : 0 .. 1, y : 0 .. 1, width : 1 .. 2, length : 1 .. 2]

PrunedLists ==
    UNION {[1 .. n -> PrunedRectangles] : n \in 0 .. 3}

\* the rectangles handed to splitFreeRectangle as the placed one, the empty
\* and the protruding ones included
PlacedRectangles ==
    [x : 0 .. 1, y : 0 .. 1, width : 0 .. MaxRectSide, length : 0 .. MaxRectSide]

\* the pieces looked for a place: up to MaxRectSide wide and long
PlacedPieces ==
    [id : {PieceIds[1]}, widthMm : 1 .. MaxRectSide, lengthMm : 1 .. MaxRectSide,
     quantity : {1}, priority : {5}, grainDirection : {"none", "length"}]

\* settings that pass validation; the helpers read kerfMm and respectGrain
HelperSettings ==
    {s \in CutSettings : /\ s.kerfMm >= 0
                         /\ s.edgeTrimMm = 0
                         /\ s.minScrapWidthMm >= 0
                         /\ s.minScrapLengthMm >= 0}

FindBestCalls ==
    [fn : {"findBestPlacementOnBoard"}, piece : PlacedPieces,
     freeRectangles : FreeRectangleLists,
     settings : {s \in HelperSettings : s.kerfMm = 0},
     returned : {FALSE}, value : {<<>>}]

SplitCalls ==
    [fn : {"splitFreeRectangle"}, freeRect : FreeRectangles,
     placedRect : PlacedRectangles,
     settings : {s \in HelperSettings : ~s.respectGrain},
     returned : {FALSE}, value : {<<>>}]

PruneCalls ==
    [fn : {"pruneFreeRectangles"}, rectangles : PrunedLists,
     returned : {FALSE}, value : {<<>>}]

\* calculateLayout is not running
Idle ==
    /\ pc = "idle"
    /\ board = [widthMm |-> 0, lengthMm |-> 0]
    /\ pieces = <<>>
    /\ settings \in {s \in HelperSettings : s.kerfMm = 0 /\ ~s.respectGrain}
    /\ SameInput
    /\ errors = <<>>
    /\ warnings = <<>>
    /\ pieceInstances = <<>>
    /\ cursor = 0
    /\ placedPiecesList = <<>>
    /\ boardData = <<>>
    /\ finalUnplacedPiecesSet = {}
    /\ twin = NoLoopState
    /\ result = NoResult
    /\ twinResult = NoResult

InitCalls ==
    /\ Idle
    /\ call \in FindBestCalls \cup SplitCalls \cup PruneCalls

UnchangedLayout ==
    UNCHANGED <<board, pieces, settings, pc, errors, warnings, pieceInstances,
                cursor, placedPiecesList, boardData, finalUnplacedPiecesSet,
                twin, twinInput, twinResult, result>>

\* findBestPlacementOnBoard returns; it writes to none of its arguments
FindBestReturns ==
    /\ call.fn = "findBestPlacementOnBoard"
    /\ ~call.returned
    /\ call' = [call EXCEPT
                   !.returned = TRUE,
                   !.value = FindBestPlacementOnBoard(
                                call.piece, call.freeRectangles, call.settings)]
    /\ UnchangedLayout

SplitReturns ==
    /\ call.fn = "splitFreeRectangle"
    /\ ~call.returned
    /\ call' = [call EXCEPT
                   !.returned = TRUE,
                   !.value = SplitFreeRectangle(
                                call.freeRect, call.placedRect, call.settings)]
    /\ UnchangedLayout

PruneReturns ==
    /\ call.fn = "pruneFreeRectangles"
    /\ ~call.returned
    /\ call' = [call EXCEPT
                   !.returned = TRUE,
                   !.value = PruneFreeRectangles(call.rectangles)]
    /\ UnchangedLayout

NextCalls == FindBestReturns \/ SplitReturns \/ PruneReturns

SpecCalls == InitCalls /\ [][NextCalls]_vars

\* calculateLayout and the exported helpers together: every entry point of
\* the module
InitAll == Init \/ InitCalls

NextAll ==
    \/ RejectInput
    \/ PrepareLayout
    \/ PlacePiece
    \/ ReturnResult
    \/ FindBestReturns
    \/ SplitReturns
    \/ PruneReturns

SpecAll == InitAll /\ [][NextAll]_vars

(***************************************************************************)
(* Notions used by the properties.                                         *)
(***************************************************************************)
PlacedIndexes == 1 .. Len(placedPiecesList)

SameBoardPairs ==
    {<<i, j>> \in PlacedIndexes \X PlacedIndexes :
        i < j /\ placedPiecesList[i].boardIndex = placedPiecesList[j].boardIndex}

InteriorsOverlap(p, q) ==
    /\ p.x < q.x + q.placedWidthMm
    /\ q.x < p.x + p.placedWidthMm
    /\ p.y < q.y + q.placedLengthMm
    /\ q.y < p.y + p.placedLengthMm

GapX(p, q) == Max(q.x - (p.x + p.placedWidthMm), p.x - (q.x + q.placedWidthMm))

GapY(p, q) == Max(q.y - (p.y + p.placedLengthMm), p.y - (q.y + q.placedLengthMm))

PieceOfId(id) == CHOOSE p \in {pieces[i] : i \in 1 .. Len(pieces)} : p.id = id

GrainLocked(p) == p.grainDirection \in {"length", "width"}

\* the fatal conditions of validation, as the specification lists them
FatalCondition ==
    \/ board.widthMm <= 0
    \/ board.lengthMm <= 0
    \/ settings.kerfMm < 0
    \/ settings.edgeTrimMm < 0
    \/ settings.minScrapWidthMm < 0
    \/ settings.minScrapLengthMm < 0
    \/ /\ settings.edgeTrimMm > 0
       /\ \/ board.widthMm - 2 * settings.edgeTrimMm <= 0
          \/ board.lengthMm - 2 * settings.edgeTrimMm <= 0

\* the piece type exceeds the usable area in every allowed orientation
ExceedsUsableArea(p) ==
    LET uw == board.widthMm - 2 * settings.edgeTrimMm
        ul == board.lengthMm - 2 * settings.edgeTrimMm
    IN /\ ~(p.widthMm <= uw /\ p.lengthMm <= ul)
       /\ \/ (settings.respectGrain /\ GrainLocked(p))
          \/ ~(p.lengthMm <= uw /\ p.widthMm <= ul)

\* the number of placed pieces of the result that carry the id
PlacedCount(id) ==
    Cardinality({k \in 1 .. Len(result.placedPieces) : result.placedPieces[k].id = id})

\* the number of instances a piece type asks for
RoundedQuantity(p) == Max(0, p.quantity)

LogicErrorWarning == "Placement logic error on new board."

\* the position of a piece type in the input list
InputIndex(id) == CHOOSE i \in 1 .. Len(pieces) : pieces[i].id = id

\* a comes no later than b by descending length, then descending width
LexNotBefore(a, b) ==
    \/ a.lengthMm > b.lengthMm
    \/ a.lengthMm = b.lengthMm /\ a.widthMm >= b.widthMm

\* the piece fits into the rectangle in an allowed orientation
RectAdmits(p, rect) ==
    \/ p.widthMm <= rect.width /\ p.lengthMm <= rect.length
    \/ /\ ~(settings.respectGrain /\ GrainLocked(p))
       /\ p.lengthMm <= rect.width
       /\ p.widthMm <= rect.length

\* the board at position k of boardData admits the piece as things stand
BoardAdmits(p, k) ==
    \E r \in 1 .. Len(boardData[k].freeRectangles) :
        RectAdmits(p, boardData[k].freeRectangles[r])

\* the step places the instance at the cursor
PlacesInstance == Len(placedPiecesList') = Len(placedPiecesList) + 1

\* the usable area of an empty board: the board less the trim on every side
EmptyUsableRect ==
    [x |-> settings.edgeTrimMm, y |-> settings.edgeTrimMm,
     width |-> board.widthMm - 2 * settings.edgeTrimMm,
     length |-> board.lengthMm - 2 * settings.edgeTrimMm]

\* the piece fits the empty usable rectangle in an allowed orientation
FitsEmptyBoard(p) ==
    /\ EmptyUsableRect.width > 0
    /\ EmptyUsableRect.length > 0
    /\ RectAdmits(p, EmptyUsableRect)

\* every free rectangle of the boards: <<position in boardData, position in
\* the board's list>>
FreeRectangleIndexes ==
    UNION {{<<k, r>> : r \in 1 .. Len(boardData[k].freeRectangles)} :
             k \in 1 .. Len(boardData)}

\* the rectangle is large enough to be usable scrap
Qualifies(rect) ==
    /\ rect.width > 0
    /\ rect.length > 0
    /\ \/ rect.width >= settings.minScrapWidthMm
          /\ rect.length >= settings.minScrapLengthMm
       \/ rect.length >= settings.minScrapWidthMm
          /\ rect.width >= settings.minScrapLengthMm

\* the scrap entry reports the free rectangle r of the board at position k
Reports(e, k, r) ==
    LET rect == boardData[k].freeRectangles[r]
    IN /\ e.boardIndex = boardData[k].index
       /\ e.x = rect.x
       /\ e.y = rect.y
       /\ e.width = rect.width
       /\ e.length = rect.length

\* scenario A: three panels of 1200 x 600 from a sheet of 2440 x 1220
SheetScenario ==
    /\ board = [widthMm |-> 2440, lengthMm |-> 1220]
    /\ settings.edgeTrimMm = 5
    /\ settings.kerfMm = 3
    /\ ~settings.respectGrain
    /\ Len(pieces) = 1
    /\ pieces[1].widthMm = 1200
    /\ pieces[1].lengthMm = 600
    /\ pieces[1].quantity = 3

\* scenario B: two squares of 60 x 60 from a board of 100 x 100
SquaresScenario ==
    /\ board = [widthMm |-> 100, lengthMm |-> 100]
    /\ settings.edgeTrimMm = 0
    /\ settings.kerfMm = 0
    /\ Len(pieces) = 1
    /\ pieces[1].widthMm = 60
    /\ pieces[1].lengthMm = 60
    /\ pieces[1].quantity = 2

\* the type has an instance that was not placed
SomeInstanceFailed(p) ==
    RoundedQuantity(p) >= 1 /\ PlacedCount(p.id) < RoundedQuantity(p)

\* the list names no id twice and follows the order of the input
InInputOrder(list) ==
    \A i, j \in 1 .. Len(list) :
        i < j => InputIndex(list[i].id) < InputIndex(list[j].id)

\* the ids of a list of piece types
IdsOf(list) == [i \in 1 .. Len(list) |-> list[i].id]

\* a call of findBestPlacementOnBoard that has not returned yet
FindBestPending == call.fn = "findBestPlacementOnBoard" /\ ~call.returned

\* turning the piece is allowed under the settings
RotationAllowed(p, s) == p.grainDirection = "none" \/ s.respectGrain = FALSE

AdmitsUnrotated(p, rect) == p.widthMm <= rect.width /\ p.lengthMm <= rect.length

AdmitsRotated(p, rect, s) ==
    RotationAllowed(p, s) /\ p.lengthMm <= rect.width /\ p.widthMm <= rect.length

\* the admissible candidates of the call: <<position in the list, rotated>>
AdmissibleCandidates ==
    {c \in (1 .. Len(call.freeRectangles)) \X BOOLEAN :
        IF c[2] THEN AdmitsRotated(call.piece, call.freeRectangles[c[1]], call.settings)
        ELSE AdmitsUnrotated(call.piece, call.freeRectangles[c[1]])}

\* the smaller of the two leftover dimensions of a candidate
ShortSideLeftover(c) ==
    LET rect == call.freeRectangles[c[1]]
    IN IF c[2]
       THEN Min(rect.width - call.piece.lengthMm, rect.length - call.piece.widthMm)
       ELSE Min(rect.width - call.piece.widthMm, rect.length - call.piece.lengthMm)

\* c is tried before d: earlier rectangle, or the same one unrotated
TriedBefore(c, d) == c[1] < d[1] \/ (c[1] = d[1] /\ ~c[2] /\ d[2])

\* a call of splitFreeRectangle that has returned
SplitReturned == call.fn = "splitFreeRectangle" /\ call.returned

\* the placed rectangle is not empty and lies inside the free one
PlacedInsideFree(f, p) ==
    /\ p.width > 0
    /\ p.length > 0
    /\ p.x >= f.x
    /\ p.y >= f.y
    /\ p.x + p.width <= f.x + f.width
    /\ p.y + p.length <= f.y + f.length

\* some edge of the placed rectangle lies outside the free one
Protrudes(f, p) ==
    \/ p.x < f.x
    \/ p.y < f.y
    \/ p.x + p.width > f.x + f.width
    \/ p.y + p.length > f.y + f.length

\* the arguments calculateLayout hands to splitFreeRectangle for the instance
\* under the cursor: none when the instance is not placed
LayoutSplitArguments ==
    IF pc = "place" /\ cursor <= Len(pieceInstances)
    THEN LET best == BestPlacementForPiece(LoopState, pieceInstances[cursor],
                                           board, settings)
         IN IF best = <<>> \/ UsedNodeMissing(LoopState, pieceInstances[cursor],
                                              board, settings)
            THEN {}
            ELSE {[freeRect |-> best[1].freeRectangles[best[1].cand.nodeIndex],
                   placedRect |-> best[1].cand.placementRect]}
    ELSE {}

\* the placed rectangle sits in the top-left corner of the free one
AnchoredTopLeft(f, p) == PlacedInsideFree(f, p) /\ p.x = f.x /\ p.y = f.y

\* the rectangles of the shorter-leftover-axis split, as a set
ShorterAxisSplit(f, p, k) ==
    LET leftoverWidth == f.width - p.width
        leftoverLength == f.length - p.length
    IN IF leftoverWidth <= leftoverLength
       THEN {r \in {[x |-> f.x + p.width + k, y |-> f.y,
                      width |-> leftoverWidth - k, length |-> f.length]} :
                r.width > 0}
            \cup {r \in {[x |-> f.x, y |-> f.y + p.length,
                           width |-> p.width, length |-> leftoverLength]} :
                     r.length > 0}
       ELSE {r \in {[x |-> f.x, y |-> f.y + p.length + k,
                      width |-> f.width, length |-> leftoverLength - k]} :
                r.length > 0}
            \cup {r \in {[x |-> f.x + p.width, y |-> f.y,
                           width |-> leftoverWidth, length |-> p.length]} :
                     r.width > 0}

\* a call of pruneFreeRectangles that has returned
PruneReturned == call.fn = "pruneFreeRectangles" /\ call.returned

\* rectangle a lies inside rectangle b
LiesWithin(a, b) ==
    /\ b.x <= a.x
    /\ b.y <= a.y
    /\ a.x + a.width <= b.x + b.width
    /\ a.y + a.length <= b.y + b.length

\* out is in taken at increasing positions
OrderedSubList(out, in) ==
    \E f \in [1 .. Len(out) -> 1 .. Len(in)] :
        /\ \A i, j \in 1 .. Len(out) : i < j => f[i] < f[j]
        /\ \A i \in 1 .. Len(out) : out[i] = in[f[i]]

\* no rectangle of the list lies inside another one of the list
NoneWithinAnother(out) ==
    \A i, j \in 1 .. Len(out) : i # j => ~LiesWithin(out[i], out[j])

\* the positions holding a rectangle that lies inside no different rectangle
\* of the list and equals no earlier one
MaximalFirsts(in) ==
    {i \in 1 .. Len(in) :
        \A j \in 1 .. Len(in) :
            j # i => \/ ~LiesWithin(in[i], in[j])
                     \/ in[j] = in[i] /\ i < j}

\* out is in at the positions of the set, in order
RECURSIVE TakenAt(_, _, _)
TakenAt(in, positions, i) ==
    IF i > Len(in) THEN <<>>
    ELSE IF i \in positions THEN <<in[i]>> \o TakenAt(in, positions, i + 1)
    ELSE TakenAt(in, positions, i + 1)

\* what the claim says of every pruned list but for identical rectangles
PrunedToMaximal(in, out) ==
    /\ OrderedSubList(out, in)
    /\ NoneWithinAnother(out)
    /\ \A i \in 1 .. Len(in) : \E j \in 1 .. Len(out) : LiesWithin(in[i], out[j])
    /\ PruneFreeRectangles(out) = out

\* the boards that hold a placed piece, by boardIndex
BoardsWithPieces(placed) == {placed[k].boardIndex : k \in 1 .. Len(placed)}

\* the interiors of two rectangles meet
RectanglesOverlap(a, b) ==
    /\ a.x < b.x + b.width
    /\ b.x < a.x + a.width
    /\ a.y < b.y + b.length
    /\ b.y < a.y + a.length

\* the rectangle a placed piece covers
PieceRect(p) ==
    [x |-> p.x, y |-> p.y, width |-> p.placedWidthMm, length |-> p.placedLengthMm]

\* the rectangle lies inside the board less its edge trim
InsideUsableArea(r) ==
    /\ r.x >= settings.edgeTrimMm
    /\ r.y >= settings.edgeTrimMm
    /\ r.x + r.width <= board.widthMm - settings.edgeTrimMm
    /\ r.y + r.length <= board.lengthMm - settings.edgeTrimMm

\* rectangles of one board (each with its boardIndex) that meet neither one
\* another nor a piece placed on that board
ApartOnBoards(rects, placed) ==
    /\ \A i, j \in 1 .. Len(rects) :
          (i < j /\ rects[i].boardIndex = rects[j].boardIndex)
             => ~RectanglesOverlap(rects[i], rects[j])
    /\ \A i \in 1 .. Len(rects) : \A q \in 1 .. Len(placed) :
          placed[q].boardIndex = rects[i].boardIndex
             => ~RectanglesOverlap(rects[i], PieceRect(placed[q]))

\* the free rectangles of a board, each with the board's index
FreeOfBoard(b) ==
    [i \in 1 .. Len(b.freeRectangles) |->
        [x |-> b.freeRectangles[i].x, y |-> b.freeRectangles[i].y,
         width |-> b.freeRectangles[i].width, length |-> b.freeRectangles[i].length,
         boardIndex |-> b.index]]

\* on every board the free rectangles are not empty, lie inside the usable
\* area, and meet neither one another nor a piece of the board
FreeRectanglesSound(bd, placed) ==
    \A k \in 1 .. Len(bd) :
        /\ \A i \in 1 .. Len(bd[k].freeRectangles) :
              /\ bd[k].freeRectangles[i].width > 0
              /\ bd[k].freeRectangles[i].length > 0
              /\ InsideUsableArea(bd[k].freeRectangles[i])
        /\ ApartOnBoards(FreeOfBoard(bd[k]), placed)

\* the lists calculateLayout hands to pruneFreeRectangles for the instance
\* under the cursor: none when the instance is not placed
LayoutPruneArguments ==
    IF pc = "place" /\ cursor <= Len(pieceInstances)
    THEN LET best == BestPlacementForPiece(LoopState, pieceInstances[cursor],
                                           board, settings)
         IN IF best = <<>> \/ UsedNodeMissing(LoopState, pieceInstances[cursor],
                                              board, settings)
            THEN {}
            ELSE {[boardIndex |-> best[1].boardIndex,
                   rectangles |->
                       RemoveAt(best[1].freeRectangles, best[1].cand.nodeIndex)
                       \o SplitFreeRectangle(
                              best[1].freeRectangles[best[1].cand.nodeIndex],
                              best[1].cand.placementRect, settings)]}
    ELSE {}

\* an iteration of the placement loop that did not throw
LoopIteration == pc = "place" /\ pc' = "place" /\ cursor' = cursor + 1

\* the iteration placed an instance
InstancePlaced == Len(placedPiecesList') = Len(placedPiecesList) + 1

\* the area of the pieces placed on the board at position k of boardData
PlacedAreaOnBoard(k) ==
    SumSeq([q \in 1 .. Len(placedPiecesList) |->
              IF placedPiecesList[q].boardIndex = boardData[k].index
              THEN placedPiecesList[q].placedWidthMm * placedPiecesList[q].placedLengthMm
              ELSE 0])

\* the area of the free rectangles of the board at position k of boardData
FreeAreaOnBoard(k) ==
    SumSeq([i \in 1 .. Len(boardData[k].freeRectangles) |->
              boardData[k].freeRectangles[i].width
                * boardData[k].freeRectangles[i].length])

\* usableWidth x usableLength
UsableAreaMm2 ==
    (board.widthMm - 2 * settings.edgeTrimMm)
      * (board.lengthMm - 2 * settings.edgeTrimMm)

\* the placement loop has started or finished
LoopEntered == pc \in {"place", "done"}

\* the elements of a sequence
Range(seq) == {seq[i] : i \in 1 .. Len(seq)}

InSeq(x, s) == \E i \in 1 .. Len(s) : s[i] = x

SizeWarning == "Found piece type(s) larger than the usable board area"

WasteIs(n) == result.wastePercentage.num = n * result.wastePercentage.den

(***************************************************************************)
(* C1: after every prefix of the placement loop, no two distinct placed    *)
(* pieces on the same board overlap (their interiors are disjoint).        *)
(***************************************************************************)
C1_NoOverlap ==
    \A pr \in SameBoardPairs :
        ~InteriorsOverlap(placedPiecesList[pr[1]], placedPiecesList[pr[2]])

\* three pieces on one board, cut with a kerf
C1_Witness ==
    /\ settings.kerfMm > 0
    /\ \E b \in 0 .. Len(boardData) - 1 :
          Cardinality({i \in PlacedIndexes : placedPiecesList[i].boardIndex = b}) >= 3

(***************************************************************************)
(* C2: every placed piece lies inside the trimmed usable area of the board *)
(* on both axes.                                                           *)
(***************************************************************************)
C2_Containment ==
    \A i \in PlacedIndexes :
        LET p == placedPiecesList[i]
        IN /\ settings.edgeTrimMm <= p.x
           /\ p.x + p.placedWidthMm <= board.widthMm - settings.edgeTrimMm
           /\ settings.edgeTrimMm <= p.y
           /\ p.y + p.placedLengthMm <= board.lengthMm - settings.edgeTrimMm

\* with an edge trim, a piece away from the near corner that reaches the far
\* edges of the usable area
C2_Witness ==
    /\ settings.edgeTrimMm > 0
    /\ \E i \in PlacedIndexes :
          LET p == placedPiecesList[i]
          IN /\ p.x + p.placedWidthMm = board.widthMm - settings.edgeTrimMm
             /\ p.y + p.placedLengthMm = board.lengthMm - settings.edgeTrimMm
             /\ (p.x > settings.edgeTrimMm \/ p.y > settings.edgeTrimMm)

(***************************************************************************)
(* C3: placed pieces on the same board are kerf-separated: along some axis *)
(* the gap between two of them is at least kerfMm.                         *)
(***************************************************************************)
C3_KerfSeparated ==
    \A pr \in SameBoardPairs :
        \/ GapX(placedPiecesList[pr[1]], placedPiecesList[pr[2]]) >= settings.kerfMm
        \/ GapY(placedPiecesList[pr[1]], placedPiecesList[pr[2]]) >= settings.kerfMm

(***************************************************************************)
(* C4: with respectGrain, no placed piece whose type has grain direction   *)
(* length or width is rotated.                                             *)
(***************************************************************************)
C4_GrainRespected ==
    settings.respectGrain =>
        \A i \in PlacedIndexes :
            GrainLocked(PieceOfId(placedPiecesList[i].id))
                => ~placedPiecesList[i].isRotated

\* respectGrain is on, a grain-locked piece is placed where its rotation
\* would fit too, and a piece without grain is placed rotated
C4_Witness ==
    /\ settings.respectGrain
    /\ \E i \in PlacedIndexes :
          /\ GrainLocked(PieceOfId(placedPiecesList[i].id))
          /\ placedPiecesList[i].placedLengthMm <= UsableWidthMm(board, settings)
    /\ \E i \in PlacedIndexes : placedPiecesList[i].isRotated

(***************************************************************************)
(* C5: under a fatal condition no placement is attempted and the result    *)
(* has no placed pieces, all piece types unplaced, boardsUsed 0, waste 100,*)
(* no scrap and a non-empty error list.                                    *)
(***************************************************************************)
C5_FatalShortCircuit ==
    FatalCondition =>
        /\ pc \in {"validate", "done"}
        /\ placedPiecesList = <<>>
        /\ boardData = <<>>
        /\ pc = "done" =>
              /\ result.placedPieces = <<>>
              /\ result.unplacedPieces = pieces
              /\ result.boardsUsed = 0
              /\ WasteIs(100)
              /\ result.usableScrap = <<>>
              /\ Len(result.errors) > 0

\* a rejected run whose two piece types would both fit the board
C5_Witness ==
    /\ FatalCondition
    /\ pc = "done"
    /\ Len(pieces) = 2
    /\ board.widthMm > 0
    /\ board.lengthMm > 0
    /\ \A i \in 1 .. Len(pieces) :
          pieces[i].widthMm <= board.widthMm /\ pieces[i].lengthMm <= board.lengthMm

(***************************************************************************)
(* C6, as claimed: every piece type that exceeds the usable area in every  *)
(* allowed orientation is in unplacedPieces and a warning is given,        *)
(* whatever its quantity.                                                  *)
(***************************************************************************)
C6_OversizedAlwaysUnplaced ==
    pc = "done" =>
        \A i \in 1 .. Len(pieces) :
            ExceedsUsableArea(pieces[i]) =>
                /\ InSeq(pieces[i], result.unplacedPieces)
                /\ InSeq(SizeWarning, result.warnings)

(***************************************************************************)
(* C6, amended: every piece type that exceeds the usable area in every     *)
(* allowed orientation causes the warning, and it is in unplacedPieces if  *)
(* its quantity is at least 1.                                             *)
(***************************************************************************)
C6_OversizedUnplacedIfRequested ==
    pc = "done" =>
        \A i \in 1 .. Len(pieces) :
            ExceedsUsableArea(pieces[i]) =>
                /\ InSeq(SizeWarning, result.warnings)
                /\ pieces[i].quantity >= 1 => InSeq(pieces[i], result.unplacedPieces)

\* an accepted run with an oversized type that was requested and another
\* type that was placed
C6_Witness ==
    /\ pc = "done"
    /\ ~FatalCondition
    /\ \E i \in 1 .. Len(pieces) :
          ExceedsUsableArea(pieces[i]) /\ pieces[i].quantity >= 1
    /\ result.placedPieces # <<>>

(***************************************************************************)
(* C7: an empty piece list with valid board and settings gives             *)
(* boardsUsed 0, no placed piece, waste 0 and no errors.                   *)
(***************************************************************************)
C7_EmptyInput ==
    (pc = "done" /\ pieces = <<>> /\ ~FatalCondition) =>
        /\ result.boardsUsed = 0
        /\ result.placedPieces = <<>>
        /\ WasteIs(0)
        /\ result.errors = <<>>

C7_Witness == pc = "done" /\ pieces = <<>> /\ ~FatalCondition

C9_BoardsUsedIffPlaced ==
    pc = "done" => (result.boardsUsed = 0 <=> result.placedPieces = <<>>)

\* an accepted run that had a board open and placed nothing on it
C9_Witness ==
    /\ pc = "done"
    /\ Len(boardData) > 0
    /\ pieceInstances # <<>>
    /\ result.placedPieces = <<>>

(***************************************************************************)
(* C10, as claimed: in every result the waste is within [0, 100], the      *)
(* placed area is at most the area of the boards used, and with a total    *)
(* board area of 0 the waste is 100 if any area was requested, else 0.     *)
(***************************************************************************)
C10_WasteInRangeEveryResult ==
    pc = "done" =>
        /\ 0 <= result.wastePercentage.num
        /\ result.wastePercentage.num <= 100 * result.wastePercentage.den
        /\ result.boardsUsed > 0 =>
              /\ 0 <= result.totalPlacedPieceAreaMm2
              /\ result.totalPlacedPieceAreaMm2
                    <= result.boardsUsed * board.widthMm * board.lengthMm
        /\ result.totalBoardsAreaMm2 = 0 =>
              IF result.totalPiecesAreaMm2 > 0 THEN WasteIs(100) ELSE WasteIs(0)

(***************************************************************************)
(* C10, amended: the same, except that the result of a run rejected by     *)
(* validation has waste 100 also when no area was requested.               *)
(***************************************************************************)
C10_WasteInRange ==
    pc = "done" =>
        /\ 0 <= result.wastePercentage.num
        /\ result.wastePercentage.num <= 100 * result.wastePercentage.den
        /\ result.boardsUsed > 0 =>
              /\ 0 <= result.totalPlacedPieceAreaMm2
              /\ result.totalPlacedPieceAreaMm2
                    <= result.boardsUsed * board.widthMm * board.lengthMm
        /\ result.totalBoardsAreaMm2 = 0 =>
              IF result.errors # <<>> THEN WasteIs(100)
              ELSE IF result.totalPiecesAreaMm2 > 0 THEN WasteIs(100) ELSE WasteIs(0)

\* a result over two boards or more with part of them wasted
C10_Witness ==
    /\ pc = "done"
    /\ result.boardsUsed >= 2
    /\ 0 < result.wastePercentage.num
    /\ result.wastePercentage.num < 100 * result.wastePercentage.den

(***************************************************************************)
(* C11: every run of calculateLayout, on valid or invalid input, ends by   *)
(* returning a result; no run ends in an exception or stays unfinished.    *)
(***************************************************************************)
C11_Terminates == <>(pc = "done")

(***************************************************************************)
(* C17: in a run that passed validation every piece type is placed in full *)
(* or not at all: a type that fits the empty usable rectangle in an        *)
(* allowed orientation has as many placed pieces as its quantity, a type   *)
(* is listed as unplaced exactly when it has an instance and fits in no    *)
(* allowed orientation, and the logic-error warning is never emitted.      *)
(***************************************************************************)
C17_AllOrNothing ==
    (pc = "done" /\ result.errors = <<>>) =>
        /\ \A i \in 1 .. Len(pieces) :
              LET p == pieces[i]
                  n == PlacedCount(p.id)
              IN /\ ~ExceedsUsableArea(p) => n = RoundedQuantity(p)
                 /\ ExceedsUsableArea(p) => n = 0
                 /\ InSeq(p, result.unplacedPieces)
                       <=> (RoundedQuantity(p) >= 1 /\ ExceedsUsableArea(p))
        /\ ~InSeq(LogicErrorWarning, result.warnings)

\* an accepted run with a type placed twice, the second time on a board of
\* its own, and another requested type that fits nowhere
C17_Witness ==
    /\ pc = "done"
    /\ result.errors = <<>>
    /\ result.boardsUsed >= 2
    /\ \E i, j \in 1 .. Len(pieces) :
          /\ pieces[i].quantity = 2
          /\ PlacedCount(pieces[i].id) = 2
          /\ ExceedsUsableArea(pieces[j])
          /\ pieces[j].quantity >= 1
          /\ InSeq(pieces[j], result.unplacedPieces)

(***************************************************************************)
(* C20: the instances are processed by descending lengthMm, then           *)
(* descending widthMm, instances equal in both in their input order; the   *)
(* original (lengthMm, widthMm) pairs of the placed pieces, in the order   *)
(* placed, never increase.                                                 *)
(***************************************************************************)
C20_ProcessingOrder ==
    pc \in {"place", "done"} =>
        /\ \A i, j \in 1 .. Len(pieceInstances) :
              i < j =>
                  /\ LexNotBefore(pieceInstances[i], pieceInstances[j])
                  /\ (/\ pieceInstances[i].lengthMm = pieceInstances[j].lengthMm
                      /\ pieceInstances[i].widthMm = pieceInstances[j].widthMm)
                        => InputIndex(pieceInstances[i].id)
                               <= InputIndex(pieceInstances[j].id)
        /\ \A i, j \in 1 .. Len(placedPiecesList) :
              i < j => LexNotBefore(PieceOfId(placedPiecesList[i].id),
                                    PieceOfId(placedPiecesList[j].id))

\* the sort moved the second type of the input in front of the first, and
\* three pieces were placed in that order
C20_Witness ==
    /\ pc = "done"
    /\ Len(pieces) = 2
    /\ pieces[1].lengthMm < pieces[2].lengthMm
    /\ pieces[1].widthMm > pieces[2].widthMm
    /\ Len(result.placedPieces) >= 3
    /\ result.placedPieces[1].id = pieces[2].id
    /\ result.placedPieces[Len(result.placedPieces)].id = pieces[1].id

(***************************************************************************)
(* C18: first fit over the boards.  A step that places an instance puts it *)
(* on no board that comes after one admitting it: no board of lower index  *)
(* admitted the instance at that moment, and when some existing board      *)
(* admitted it, the instance went to the lowest such board.                *)
(***************************************************************************)
C18_FirstFit ==
    [][(pc = "place" /\ cursor <= Len(pieceInstances)) =>
          LET piece == pieceInstances[cursor]
              admitting == {k \in 1 .. Len(boardData) : BoardAdmits(piece, k)}
          IN /\ admitting # {} => PlacesInstance
             /\ PlacesInstance =>
                   LET b == placedPiecesList'[Len(placedPiecesList')].boardIndex
                   IN /\ \A k \in admitting : b <= k - 1
                      /\ admitting # {} => b + 1 \in admitting]_vars

\* the instance just placed went to board 0 while board 1, opened earlier,
\* admits it as well
C18_Witness ==
    /\ pc = "place"
    /\ cursor > 1
    /\ Len(boardData) >= 2
    /\ placedPiecesList # <<>>
    /\ LET last == placedPiecesList[Len(placedPiecesList)]
       IN /\ last.id = pieceInstances[cursor - 1].id
          /\ last.boardIndex = 0
          /\ BoardAdmits(pieceInstances[cursor - 1], 2)
          /\ \E k \in 1 .. Len(placedPiecesList) - 1 :
                placedPiecesList[k].boardIndex = 1

(***************************************************************************)
(* C19: a board is appended only when no existing board admits the         *)
(* instance and the instance fits the empty usable rectangle; then one     *)
(* board is appended, it starts as the single free rectangle (edgeTrim,    *)
(* edgeTrim, usableWidth, usableLength) and the instance is placed on it.  *)
(* An instance that does not fit the empty usable rectangle leaves the     *)
(* boards as they are and becomes unplaced.                                *)
(***************************************************************************)
C19_NewBoard ==
    [][(pc = "place" /\ cursor <= Len(pieceInstances)) =>
          LET piece == pieceInstances[cursor]
              admitting == {k \in 1 .. Len(boardData) : BoardAdmits(piece, k)}
              n == Len(boardData)
          IN /\ Len(boardData') # n =>
                   /\ admitting = {}
                   /\ FitsEmptyBoard(piece)
                   /\ Len(boardData') = n + 1
                   /\ SubSeq(boardData', 1, n) = boardData
                   /\ boardData'[n + 1].index = n
                   /\ PlacesInstance
                   /\ LET p == placedPiecesList'[Len(placedPiecesList')]
                          placedRect == [x |-> p.x, y |-> p.y,
                                         width |-> p.placedWidthMm,
                                         length |-> p.placedLengthMm]
                      IN /\ p.id = piece.id
                         /\ p.boardIndex = n
                         /\ p.x = settings.edgeTrimMm
                         /\ p.y = settings.edgeTrimMm
                         /\ boardData'[n + 1].freeRectangles =
                               PruneFreeRectangles(
                                   SplitFreeRectangle(EmptyUsableRect, placedRect,
                                                      settings))
             /\ (admitting = {} /\ FitsEmptyBoard(piece)) => Len(boardData') = n + 1
             /\ ~FitsEmptyBoard(piece) =>
                   /\ boardData' = boardData
                   /\ placedPiecesList' = placedPiecesList
                   /\ piece.id \in finalUnplacedPiecesSet']_vars

\* a second board was opened by the instance just placed, and an instance
\* before it was left unplaced without a board being opened
C19_Witness ==
    /\ pc = "place"
    /\ cursor > 1
    /\ Len(boardData) = 2
    /\ finalUnplacedPiecesSet # {}
    /\ placedPiecesList # <<>>
    /\ LET last == placedPiecesList[Len(placedPiecesList)]
       IN /\ last.id = pieceInstances[cursor - 1].id
          /\ last.boardIndex = 1
          /\ last.x = settings.edgeTrimMm
          /\ last.y = settings.edgeTrimMm
          /\ settings.edgeTrimMm > 0

(***************************************************************************)
(* C14: a final free rectangle is reported in usableScrap if and only if   *)
(* it has positive size and meets the two minimums as it lies or turned;   *)
(* every entry reports one such rectangle with its board's index and       *)
(* areaMm2 = width x length.  With both minimums 50 a free rectangle of    *)
(* 40 x 40 is not reported and one of 60 x 60 is.                          *)
(***************************************************************************)
C14_ScrapThreshold ==
    pc = "done" =>
        /\ \A kr \in FreeRectangleIndexes :
              Qualifies(boardData[kr[1]].freeRectangles[kr[2]])
                  <=> \E i \in 1 .. Len(result.usableScrap) :
                          Reports(result.usableScrap[i], kr[1], kr[2])
        /\ \A i \in 1 .. Len(result.usableScrap) :
              /\ result.usableScrap[i].areaMm2 =
                     result.usableScrap[i].width * result.usableScrap[i].length
              /\ \E kr \in FreeRectangleIndexes :
                     Reports(result.usableScrap[i], kr[1], kr[2])
        /\ Len(result.usableScrap) =
              Cardinality({kr \in FreeRectangleIndexes :
                              Qualifies(boardData[kr[1]].freeRectangles[kr[2]])})

\* with both minimums 50 the board ends with a free rectangle of 40 x 40
\* that is not reported and one of 60 x 60 that is
C14_Witness ==
    /\ pc = "done"
    /\ settings.minScrapWidthMm = 50
    /\ settings.minScrapLengthMm = 50
    /\ \E kr \in FreeRectangleIndexes :
          LET rect == boardData[kr[1]].freeRectangles[kr[2]]
          IN /\ rect.width = 40
             /\ rect.length = 40
             /\ \A i \in 1 .. Len(result.usableScrap) :
                   ~Reports(result.usableScrap[i], kr[1], kr[2])
    /\ \E kr \in FreeRectangleIndexes :
          LET rect == boardData[kr[1]].freeRectangles[kr[2]]
          IN /\ rect.width = 60
             /\ rect.length = 60
             /\ \E i \in 1 .. Len(result.usableScrap) :
                   /\ Reports(result.usableScrap[i], kr[1], kr[2])
                   /\ result.usableScrap[i].areaMm2 = 3600

(***************************************************************************)
(* C12: scenario A (board 2440 x 1220, trim 5, kerf 3, grain not           *)
(* respected, one type 1200 x 600 with quantity 3) ends with all three     *)
(* instances placed on board 0, no unplaced type and boardsUsed = 1.       *)
(***************************************************************************)
C12_SheetScenario ==
    (SheetScenario /\ pc = "done") =>
        /\ result.errors = <<>>
        /\ Len(result.placedPieces) = 3
        /\ \A i \in 1 .. Len(result.placedPieces) :
              /\ result.placedPieces[i].boardIndex = 0
              /\ result.placedPieces[i].id = pieces[1].id
        /\ result.unplacedPieces = <<>>
        /\ result.boardsUsed = 1

\* the result of scenario A: the panels stand side by side, turned
C12_Witness ==
    /\ SheetScenario
    /\ pc = "done"
    /\ Len(result.placedPieces) = 3
    /\ result.placedPieces[3].isRotated
    /\ result.placedPieces[3].x = 1205
    /\ result.placedPieces[3].y = 5

(***************************************************************************)
(* C13: scenario B (board 100 x 100, trim 0, kerf 0, one type 60 x 60 with *)
(* quantity 2): the first instance is placed at (0,0) on board 0, no free  *)
(* rectangle then left on board 0 admits the second instance, the second   *)
(* instance is placed at (0,0) on a second board, and boardsUsed = 2.      *)
(***************************************************************************)
C13_SquaresScenario ==
    SquaresScenario =>
        /\ (pc = "place" /\ cursor >= 2) =>
              /\ placedPiecesList[1].boardIndex = 0
              /\ placedPiecesList[1].x = 0
              /\ placedPiecesList[1].y = 0
        /\ (pc = "place" /\ cursor = 2) =>
              /\ Len(placedPiecesList) = 1
              /\ Len(boardData) = 1
              /\ ~BoardAdmits(pieceInstances[2], 1)
        /\ (pc = "place" /\ cursor = 3) =>
              /\ Len(placedPiecesList) = 2
              /\ Len(boardData) = 2
              /\ placedPiecesList[2].boardIndex = 1
              /\ placedPiecesList[2].x = 0
              /\ placedPiecesList[2].y = 0
        /\ pc = "done" =>
              /\ result.placedPieces = placedPiecesList
              /\ Len(result.placedPieces) = 2
              /\ result.placedPieces[1].boardIndex = 0
              /\ result.placedPieces[2].boardIndex = 1
              /\ result.boardsUsed = 2

\* the result of scenario B, each board left with the strips of 40 beside
\* and below its square
C13_Witness ==
    /\ SquaresScenario
    /\ pc = "done"
    /\ result.boardsUsed = 2
    /\ \A k \in 1 .. 2 :
          /\ Len(boardData[k].freeRectangles) = 2
          /\ \A r \in 1 .. 2 :
                \/ boardData[k].freeRectangles[r].width = 40
                \/ boardData[k].freeRectangles[r].length = 40

(***************************************************************************)
(* C15 as stated: in every result a type is listed in unplacedPieces at    *)
(* most once, only if one of its instances was not placed, and the list    *)
(* follows the input order.  Violated by a rejected run whose input has a  *)
(* type with quantity 0.                                                   *)
(***************************************************************************)
C15_ListedOnlyIfFailedEveryResult ==
    pc = "done" =>
        /\ InInputOrder(result.unplacedPieces)
        /\ \A i \in 1 .. Len(result.unplacedPieces) :
              /\ InSeq(result.unplacedPieces[i], pieces)
              /\ SomeInstanceFailed(result.unplacedPieces[i])

(***************************************************************************)
(* C15, amended: in every result a type is listed in unplacedPieces at     *)
(* most once and the list follows the input order; in a run that passed    *)
(* validation a type is listed only if one of its instances was not        *)
(* placed, and a rejected run lists every type of the input.               *)
(***************************************************************************)
C15_ListedOnlyIfFailed ==
    pc = "done" =>
        /\ InInputOrder(result.unplacedPieces)
        /\ \A i \in 1 .. Len(result.unplacedPieces) :
              InSeq(result.unplacedPieces[i], pieces)
        /\ result.errors = <<>> =>
              \A i \in 1 .. Len(result.unplacedPieces) :
                  SomeInstanceFailed(result.unplacedPieces[i])
        /\ result.errors # <<>> => result.unplacedPieces = pieces

\* an accepted run in which both instances of the first type and the one
\* of the second failed, the second type having been tried first: each type
\* is listed once, in input order
C15_Witness ==
    /\ pc = "done"
    /\ result.errors = <<>>
    /\ Len(pieces) = 2
    /\ pieces[1].quantity = 2
    /\ pieces[2].quantity = 1
    /\ pieces[2].lengthMm > pieces[1].lengthMm
    /\ result.placedPieces = <<>>
    /\ result.unplacedPieces = pieces

(***************************************************************************)
(* C16: two calls whose inputs differ only in settings.optimizationAlgo    *)
(* and in the priorities of the pieces return the same placedPieces,       *)
(* boardsUsed, wastePercentage and usableScrap and list the same piece     *)
(* types as unplaced: the same unplacedPieces when the pieces are the      *)
(* same, the same ids when priorities differ.                              *)
(***************************************************************************)
C16_AlgoAndPriorityInert ==
    pc = "done" =>
        /\ twinResult.placedPieces = result.placedPieces
        /\ IdsOf(twinResult.unplacedPieces) = IdsOf(result.unplacedPieces)
        /\ twinInput.pieces = pieces =>
              twinResult.unplacedPieces = result.unplacedPieces
        /\ twinResult.boardsUsed = result.boardsUsed
        /\ twinResult.wastePercentage = result.wastePercentage
        /\ twinResult.usableScrap = result.usableScrap

\* two calls that differ in optimizationAlgo and in the priority of a
\* piece have both placed two pieces of different size and left scrap
C16_Witness ==
    /\ pc = "done"
    /\ twinInput.settings.optimizationAlgo # settings.optimizationAlgo
    /\ twinResult.settingsUsed # result.settingsUsed
    /\ Len(pieces) = 2
    /\ twinInput.pieces[1].priority = 5
    /\ twinInput.pieces[2].priority = 1
    /\ pieces[1].lengthMm > pieces[2].lengthMm
    /\ pieces[1].widthMm # pieces[2].widthMm
    /\ Len(twinResult.placedPieces) = 2
    /\ twinResult.usableScrap # <<>>

(***************************************************************************)
(* C21: findBestPlacementOnBoard returns null if and only if no free       *)
(* rectangle admits the piece, unrotated or, where rotation is allowed,    *)
(* rotated; a candidate names a rectangle of the list, is anchored at its  *)
(* (x, y) and has an admissible orientation; the list is left as it was.   *)
(***************************************************************************)
C21_NullIffNoneAdmits ==
    [][FindBestPending =>
          LET p == call.piece
              list == call.freeRectangles
              v == call'.value
          IN /\ call'.freeRectangles = list
             /\ v = <<>> <=>
                   ~\E i \in 1 .. Len(list) :
                       \/ AdmitsUnrotated(p, list[i])
                       \/ AdmitsRotated(p, list[i], call.settings)
             /\ v # <<>> =>
                   /\ v[1].nodeIndex \in 1 .. Len(list)
                   /\ LET rect == list[v[1].nodeIndex]
                          placed == v[1].placementRect
                      IN /\ placed.x = rect.x
                         /\ placed.y = rect.y
                         /\ \/ /\ ~v[1].isRotated
                               /\ AdmitsUnrotated(p, rect)
                               /\ placed.width = p.widthMm
                               /\ placed.length = p.lengthMm
                            \/ /\ v[1].isRotated
                               /\ AdmitsRotated(p, rect, call.settings)
                               /\ placed.width = p.lengthMm
                               /\ placed.length = p.widthMm]_vars

\* a grain-bound piece, grain not respected, was given its place turned in
\* the second of two rectangles, the first admitting it in no orientation
C21_Witness ==
    /\ call.fn = "findBestPlacementOnBoard"
    /\ call.returned
    /\ call.piece.grainDirection = "length"
    /\ ~call.settings.respectGrain
    /\ Len(call.freeRectangles) = 2
    /\ ~AdmitsUnrotated(call.piece, call.freeRectangles[1])
    /\ ~AdmitsRotated(call.piece, call.freeRectangles[1], call.settings)
    /\ call.value # <<>>
    /\ call.value[1].isRotated
    /\ call.value[1].nodeIndex = 2

(***************************************************************************)
(* C22: the candidate findBestPlacementOnBoard returns has the lowest      *)
(* score (smaller leftover dimension) of all admissible candidates, and    *)
(* of those with that score it is the one tried first: earliest rectangle  *)
(* of the list, unrotated before rotated.                                  *)
(***************************************************************************)
C22_BestShortSideFirst ==
    (call.fn = "findBestPlacementOnBoard" /\ call.returned /\ call.value # <<>>) =>
        LET chosen == <<call.value[1].nodeIndex, call.value[1].isRotated>>
        IN /\ chosen \in AdmissibleCandidates
           /\ call.value[1].score = ShortSideLeftover(chosen)
           /\ \A c \in AdmissibleCandidates :
                 /\ ShortSideLeftover(c) >= call.value[1].score
                 /\ ShortSideLeftover(c) = call.value[1].score =>
                       (c = chosen \/ TriedBefore(chosen, c))

\* the second rectangle beat the first on the score, and within it the
\* unrotated candidate was kept although the rotated one scores the same
C22_Witness ==
    /\ call.fn = "findBestPlacementOnBoard"
    /\ call.returned
    /\ call.value # <<>>
    /\ call.value[1].nodeIndex = 2
    /\ ~call.value[1].isRotated
    /\ <<1, FALSE>> \in AdmissibleCandidates
    /\ <<2, TRUE>> \in AdmissibleCandidates
    /\ ShortSideLeftover(<<2, TRUE>>) = call.value[1].score
    /\ ShortSideLeftover(<<1, FALSE>>) > call.value[1].score

(***************************************************************************)
(* C23: for a placed rectangle in the top-left corner of the free one,     *)
(* splitFreeRectangle returns the rectangles of the shorter-leftover-axis  *)
(* split: with leftoverWidth <= leftoverLength, Right of full length less  *)
(* the kerf in width and Below as wide as the piece; otherwise Below of    *)
(* full width less the kerf in length and Right as long as the piece;      *)
(* each only when its reduced side is positive.  No call returns more than *)
(* two rectangles.                                                         *)
(***************************************************************************)
C23_ShorterAxisSplit ==
    SplitReturned =>
        /\ Len(call.value) <= 2
        /\ AnchoredTopLeft(call.freeRect, call.placedRect) =>
              /\ Range(call.value) =
                    ShorterAxisSplit(call.freeRect, call.placedRect,
                                     call.settings.kerfMm)
              /\ Len(call.value) = Cardinality(Range(call.value))

\* a split with kerf that returned both rectangles, the one across the
\* kerf narrower than the leftover
C23_Witness ==
    /\ SplitReturned
    /\ AnchoredTopLeft(call.freeRect, call.placedRect)
    /\ call.settings.kerfMm > 0
    /\ Len(call.value) = 2
    /\ call.freeRect.width - call.placedRect.width
          <= call.freeRect.length - call.placedRect.length
    /\ \E i \in 1 .. 2 :
          call.value[i].width
            = call.freeRect.width - call.placedRect.width - call.settings.kerfMm

(***************************************************************************)
(* C24: splitFreeRectangle returns the empty list whenever the placed      *)
(* rectangle is not contained in the free one, and no call made by         *)
(* calculateLayout fails the check: the rectangle it hands over is not     *)
(* empty and lies inside the free rectangle it was found in.               *)
(***************************************************************************)
C24_OutsideReturnsNothing ==
    /\ (SplitReturned /\ Protrudes(call.freeRect, call.placedRect))
          => call.value = <<>>
    /\ \A a \in LayoutSplitArguments : PlacedInsideFree(a.freeRect, a.placedRect)

\* a protruding rectangle in a free rectangle that a contained one would
\* leave a remainder of
C24_Witness ==
    /\ SplitReturned
    /\ Protrudes(call.freeRect, call.placedRect)
    /\ call.placedRect.width > 0
    /\ call.placedRect.length > 0
    /\ call.placedRect.width < call.freeRect.width
    /\ call.value = <<>>

(***************************************************************************)
(* C25 as stated: the pruned list is an order-preserving sub-list of the   *)
(* input, none of its rectangles lies inside another, every rectangle of   *)
(* the input lies inside a kept one, pruning it again changes nothing, and *)
(* of any two identical rectangles of the input the lower-index one is     *)
(* kept.  Fails for [A, A, B] with A inside B: neither A is kept.          *)
(***************************************************************************)
C25_LowerOfIdenticalKept ==
    PruneReturned =>
        /\ PrunedToMaximal(call.rectangles, call.value)
        /\ \A i, j \in 1 .. Len(call.rectangles) :
              (i < j /\ call.rectangles[i] = call.rectangles[j])
                 => \E k \in 1 .. Len(call.value) :
                       call.value[k] = call.rectangles[i]

(***************************************************************************)
(* C25, amended: as above, but of identical rectangles the later ones are  *)
(* always removed and the first is kept unless it lies inside a different  *)
(* rectangle: the pruned list is the input at exactly the positions whose  *)
(* rectangle lies inside no different rectangle and equals no earlier one. *)
(***************************************************************************)
C25_PruneKeepsMaximalFirsts ==
    PruneReturned =>
        /\ PrunedToMaximal(call.rectangles, call.value)
        /\ call.value = TakenAt(call.rectangles, MaximalFirsts(call.rectangles), 1)

\* two identical rectangles around a third one that neither contains nor
\* lies inside them: the first is kept in its place, the later one removed
C25_Witness ==
    /\ PruneReturned
    /\ Len(call.rectangles) = 3
    /\ call.rectangles[1] = call.rectangles[3]
    /\ ~LiesWithin(call.rectangles[1], call.rectangles[2])
    /\ ~LiesWithin(call.rectangles[2], call.rectangles[1])
    /\ call.value = <<call.rectangles[1], call.rectangles[2]>>

(***************************************************************************)
(* C26: in every result, usableScrap is sorted by areaMm2 in               *)
(* non-increasing order, whatever boards its entries come from.            *)
(***************************************************************************)
C26_ScrapByDescendingArea ==
    pc = "done" =>
        \A i, j \in 1 .. Len(result.usableScrap) :
            i < j => result.usableScrap[i].areaMm2 >= result.usableScrap[j].areaMm2

\* a larger scrap rectangle of a later board listed before a smaller one of
\* an earlier board
C26_Witness ==
    /\ pc = "done"
    /\ \E i, j \in 1 .. Len(result.usableScrap) :
          /\ i < j
          /\ result.usableScrap[i].areaMm2 > result.usableScrap[j].areaMm2
          /\ result.usableScrap[i].boardIndex > result.usableScrap[j].boardIndex

(***************************************************************************)
(* C27: in a result with placed pieces the boardIndex values of            *)
(* placedPieces are exactly 0 .. boardsUsed - 1, and at every step of the  *)
(* placement loop every board but board 0 holds a placed piece.            *)
(***************************************************************************)
C27_CountedBoardsHoldPieces ==
    /\ (pc = "done" /\ result.placedPieces # <<>>)
          => BoardsWithPieces(result.placedPieces) = 0 .. result.boardsUsed - 1
    /\ pc = "place"
          => \A k \in 2 .. Len(boardData) :
                /\ boardData[k].index = k - 1
                /\ k - 1 \in BoardsWithPieces(placedPiecesList)

\* two boards in use and a piece that found no place on either nor on a
\* new one
C27_Witness ==
    /\ pc = "done"
    /\ result.boardsUsed >= 2
    /\ result.unplacedPieces # <<>>

(***************************************************************************)
(* C28: every usableScrap entry refers to a board counted as used:         *)
(* 0 <= boardIndex < boardsUsed in every result, the results in which no   *)
(* piece was placed included.                                              *)
(***************************************************************************)
C28_ScrapOnCountedBoards ==
    pc = "done" =>
        \A k \in 1 .. Len(result.usableScrap) :
            /\ 0 <= result.usableScrap[k].boardIndex
            /\ result.usableScrap[k].boardIndex < result.boardsUsed

(***************************************************************************)
(* C29: after every iteration of the placement loop, on each board the     *)
(* free rectangles are pairwise non-overlapping, lie inside the usable     *)
(* area and overlap no piece placed on that board; the list handed to      *)
(* pruneFreeRectangles comes back unchanged; a placement changes the       *)
(* free-rectangle list of the board it lands on only; and in the result no *)
(* usableScrap rectangle overlaps a placed piece or another scrap          *)
(* rectangle of its board.                                                 *)
(***************************************************************************)
C29_FreeRectanglesDisjoint ==
    [][/\ LoopIteration =>
             /\ FreeRectanglesSound(boardData', placedPiecesList')
             /\ \A a \in LayoutPruneArguments :
                   /\ InstancePlaced
                   /\ placedPiecesList'[Len(placedPiecesList')].boardIndex
                         = a.boardIndex
                   /\ boardData'[a.boardIndex + 1].freeRectangles = a.rectangles
                   /\ \A k \in 1 .. Len(boardData) :
                         k # a.boardIndex + 1 => boardData'[k] = boardData[k]
             /\ LayoutPruneArguments = {} =>
                   /\ ~InstancePlaced
                   /\ boardData' = boardData
       /\ (pc = "place" /\ pc' = "done") =>
             ApartOnBoards(result'.usableScrap, result'.placedPieces)
      ]_vars

\* a second board with a piece on it while the first board keeps two free
\* rectangles
C29_Witness ==
    /\ pc = "place"
    /\ Len(boardData) >= 2
    /\ Len(boardData[1].freeRectangles) >= 2
    /\ \E q \in 1 .. Len(placedPiecesList) : placedPiecesList[q].boardIndex = 1

(***************************************************************************)
(* C30 as stated: after every placement step, on each board the area of    *)
(* the placed pieces plus the area of the free rectangles is at most the   *)
(* usable area, and equals it exactly when kerfMm = 0.  Fails with kerf 1  *)
(* for a piece as wide as its free rectangle: nothing is lost.             *)
(***************************************************************************)
C30_AreaEqualIffNoKerf ==
    LoopEntered =>
        \A k \in 1 .. Len(boardData) :
            /\ PlacedAreaOnBoard(k) + FreeAreaOnBoard(k) <= UsableAreaMm2
            /\ PlacedAreaOnBoard(k) + FreeAreaOnBoard(k) = UsableAreaMm2
                  <=> settings.kerfMm = 0

(***************************************************************************)
(* C30, amended: on each board the two areas together are at most the      *)
(* usable area, and equal to it whenever kerfMm = 0; area is lost only in  *)
(* runs with kerfMm > 0, and not on every board of such a run.             *)
(***************************************************************************)
C30_AreaAccounting ==
    LoopEntered =>
        \A k \in 1 .. Len(boardData) :
            /\ PlacedAreaOnBoard(k) + FreeAreaOnBoard(k) <= UsableAreaMm2
            /\ settings.kerfMm = 0
                  => PlacedAreaOnBoard(k) + FreeAreaOnBoard(k) = UsableAreaMm2

\* a board with a kerf strip lost beside one piece, while the pieces and
\* free rectangles of another board with pieces still add up to the usable
\* area
C30_Witness ==
    /\ LoopEntered
    /\ settings.kerfMm > 0
    /\ \E k, m \in 1 .. Len(boardData) :
          /\ PlacedAreaOnBoard(k) > 0
          /\ PlacedAreaOnBoard(k) + FreeAreaOnBoard(k) < UsableAreaMm2
          /\ PlacedAreaOnBoard(m) > 0
          /\ PlacedAreaOnBoard(m) + FreeAreaOnBoard(m) = UsableAreaMm2

====
